---- MODULE Spec2Model ----
(***************************************************************************)
(* Model of the hpoea hyperparameter tuning bridge (HyperTuningUdp), the   *)
(* parameter / search space helpers it decodes with, the experiment        *)
(* managers, the budget caps of the algorithm and optimizer wrappers, the  *)
(* ParameterSpace operations and the SearchSpace operations.               *)
(*                                                                         *)
(* Real numbers (double) are represented on a grid of 1/Scale: the integer *)
(* q stands for q/Scale, and a result that does not fall on the grid is    *)
(* rounded down to it.  std::int64_t values are plain integers.            *)
(***************************************************************************)
EXTENDS Integers, Naturals, Sequences, FiniteSets, TLC

\* ------------------------------------------------------------------------
\* Bounds of the model
\* ------------------------------------------------------------------------
\* number of threads the outer optimizer may use to call fitness()
NumThreads == 2
\* number of fitness() calls the outer optimizer starts in one optimize()
MaxEvals == 3
\* largest ExperimentConfig.islands and ExperimentConfig.trials_per_optimizer
MaxIslands == 3
MaxTrials == 4
\* largest number of trial records one optimize() of the experiment returns
MaxInnerTrials == 2
\* largest configured generations / max_fevals value of a budgeted call
MaxGenerations == 3
\* largest number of descriptors of a ParameterSpace under construction
MaxDescriptors == 2
\* largest number of entries of a SearchSpace under construction
MaxConfigs == 2

\* ------------------------------------------------------------------------
\* Representation of numbers
\* ------------------------------------------------------------------------
\* grid of the fixed-point representation of double
Scale == 4
\* unsigned long arithmetic wraps; the model keeps the wrap-around on a
\* reduced width (the modulus stands for 2^64)
SeedMod == 16
\* largest root searched by IRoot4
MaxRoot == 50 * Scale

\* a fitness value (double): a number, NaN or +infinity
Num(n) == [k |-> "num", v |-> n]
NaN == [k |-> "nan", v |-> 0]
Inf == [k |-> "inf", v |-> 0]

Threads == 1..NumThreads

RECURSIVE Pow(_, _)
Pow(b, e) == IF e = 0 THEN 1 ELSE b * Pow(b, e - 1)

\* floor of the fourth root
IRoot4(x) == CHOOSE r \in 0..MaxRoot : Pow(r, 4) <= x /\ x < Pow(r + 1, 4)

\* floor division and remainder for a possibly negative dividend
FloorDiv(a, b) == IF a >= 0 THEN a \div b ELSE -((-a + b - 1) \div b)
FloorMod(a, b) == a - b * FloorDiv(a, b)

\* base^(q/Scale) on the grid, rounded down: the fourth root of
\* (Scale * base^k)^4 * base^r for q = Scale*k + r, k >= 0, and of
\* Scale^4 * base^r / base^(Scale * (-k)) for k < 0
PowGrid(base, q) ==
    LET k == FloorDiv(q, Scale)
        r == FloorMod(q, Scale)
    IN IF k >= 0
       THEN IRoot4(Pow(Scale * Pow(base, k), 4) * Pow(base, r))
       ELSE IRoot4((Pow(Scale, 4) * Pow(base, r)) \div Pow(Pow(base, -k), 4))

\* std::llround on a grid value: nearest integer, halves away from zero
llround(q) == IF q >= 0 THEN (2 * q + Scale) \div (2 * Scale)
              ELSE -((2 * (-q) + Scale) \div (2 * Scale))

\* std::clamp
clamp(v, lo, hi) == IF v < lo THEN lo ELSE IF hi < v THEN hi ELSE v

\* operator< on double: false as soon as one side is NaN
Less(a, b) ==
    IF a.k = "nan" \/ b.k = "nan" THEN FALSE
    ELSE IF a.k = "inf" THEN FALSE
    ELSE IF b.k = "inf" THEN TRUE
    ELSE a.v < b.v

\* ------------------------------------------------------------------------
\* ParameterValue: std::variant<double, std::int64_t, bool, std::string>
\* ------------------------------------------------------------------------
DoubleV(q) == [k |-> "double", v |-> q]
IntV(n) == [k |-> "int", v |-> n]
BoolV(b) == [k |-> "bool", v |-> b]
StringV(s) == [k |-> "string", v |-> s]

NoRange == [has |-> FALSE, lower |-> 0, upper |-> 0]
Range(lo, hi) == [has |-> TRUE, lower |-> lo, upper |-> hi]
NoValue == [has |-> FALSE, value |-> IntV(0)]
Some(val) == [has |-> TRUE, value |-> val]

\* ParameterDescriptor
Descriptor(name, type, crange, irange, choices, default, required) ==
    [name |-> name, type |-> type, continuous_range |-> crange,
     integer_range |-> irange, categorical_choices |-> choices,
     default_value |-> default, required |-> required]

\* ParameterConfig; present |-> FALSE stands for SearchSpace::get() == nullptr
Config(mode, fixed, cb, ib, choices, transform) ==
    [present |-> TRUE, mode |-> mode, fixed_value |-> fixed,
     continuous_bounds |-> cb, integer_bounds |-> ib,
     discrete_choices |-> choices, transform |-> transform]
NoConfig ==
    [present |-> FALSE, mode |-> "optimize", fixed_value |-> NoValue,
     continuous_bounds |-> NoRange, integer_bounds |-> NoRange,
     discrete_choices |-> <<>>, transform |-> "none"]

\* SearchSpace::fix, SearchSpace::exclude, SearchSpace::optimize (both
\* overloads) and SearchSpace::optimize_choices build these configs
fix(val) == Config("fixed", Some(val), NoRange, NoRange, <<>>, "none")
exclude == Config("exclude", NoValue, NoRange, NoRange, <<>>, "none")
optimize(lo, hi, transform) ==
    Config("optimize", NoValue, Range(lo, hi), NoRange, <<>>, transform)
optimize_int(lo, hi) ==
    Config("optimize", NoValue, NoRange, Range(lo, hi), <<>>, "none")
optimize_choices(choices) ==
    Config("optimize", NoValue, NoRange, NoRange, choices, "none")

\* ------------------------------------------------------------------------
\* ParameterSpace (src/core/parameters.cpp)
\* ------------------------------------------------------------------------
\* outcome of an operation that may raise: a value or an exception
Ok(val) == [ok |-> TRUE, val |-> val, what |-> ""]
Raise(msg) == [ok |-> FALSE, val |-> <<>>, what |-> msg]

SeqToSet(s) == {s[i] : i \in 1..Len(s)}

\* ParameterSpace::validate_value: TRUE iff the value is accepted
validate_value(descriptor, value) ==
    CASE descriptor.type = "Continuous" ->
           /\ value.k = "double"
           /\ descriptor.continuous_range.has =>
                ~(value.v < descriptor.continuous_range.lower
                  \/ value.v > descriptor.continuous_range.upper)
      [] descriptor.type = "Integer" ->
           /\ value.k = "int"
           /\ descriptor.integer_range.has =>
                ~(value.v < descriptor.integer_range.lower
                  \/ value.v > descriptor.integer_range.upper)
      [] descriptor.type = "Boolean" -> value.k = "bool"
      [] descriptor.type = "Categorical" ->
           /\ value.k = "string"
           /\ value.v \in SeqToSet(descriptor.categorical_choices)

DescriptorNames(descriptors) == {descriptors[i].name : i \in 1..Len(descriptors)}

\* ParameterSpace::descriptor(name), for a name the space contains
descriptor_of(descriptors, name) ==
    descriptors[CHOOSE i \in 1..Len(descriptors) : descriptors[i].name = name]

\* ParameterSpace::add_descriptor: the space after the call, or the
\* exception
add_descriptor(descriptors, descriptor) ==
    IF descriptor.name = ""
    THEN Raise("Parameter descriptor name must not be empty")
    ELSE IF descriptor.name \in DescriptorNames(descriptors)
    THEN Raise("Parameter descriptor already exists")
    ELSE IF /\ descriptor.type = "Continuous"
            /\ descriptor.continuous_range.has
            /\ descriptor.continuous_range.lower > descriptor.continuous_range.upper
    THEN Raise("Continuous parameter lower bound exceeds upper bound")
    ELSE IF /\ descriptor.type = "Integer"
            /\ descriptor.integer_range.has
            /\ descriptor.integer_range.lower > descriptor.integer_range.upper
    THEN Raise("Integer parameter lower bound exceeds upper bound")
    ELSE IF /\ descriptor.type = "Categorical"
            /\ descriptor.categorical_choices = <<>>
    THEN Raise("Categorical parameter requires at least one choice")
    ELSE Ok(Append(descriptors, descriptor))

\* a validate that takes a required descriptor's default for its value
validate_default_counts(descriptors, values) ==
    IF \E name \in DOMAIN values : name \notin DescriptorNames(descriptors)
    THEN Raise("Unknown parameter")
    ELSE IF \E name \in DOMAIN values :
              ~validate_value(descriptor_of(descriptors, name), values[name])
    THEN Raise("Parameter expects type or bounds")
    ELSE IF \E i \in 1..Len(descriptors) :
              /\ descriptors[i].required
              /\ ~descriptors[i].default_value.has
              /\ descriptors[i].name \notin DOMAIN values
    THEN Raise("Missing required parameter")
    ELSE Ok(<<>>)

\* ParameterSpace::validate: returns nothing, or raises
validate(descriptors, values) ==
    IF \E name \in DOMAIN values : name \notin DescriptorNames(descriptors)
    THEN Raise("Unknown parameter")
    ELSE IF \E name \in DOMAIN values :
              ~validate_value(descriptor_of(descriptors, name), values[name])
    THEN Raise("Parameter expects type or bounds")
    ELSE IF \E i \in 1..Len(descriptors) :
              /\ descriptors[i].required
              /\ descriptors[i].name \notin DOMAIN values
    THEN Raise("Missing required parameter")
    ELSE Ok(<<>>)

\* an apply_defaults in which a default replaces the override
apply_defaults_default_wins(descriptors, overrides) ==
    IF \E name \in DOMAIN overrides : name \notin DescriptorNames(descriptors)
    THEN Raise("Unknown parameter")
    ELSE IF \E name \in DOMAIN overrides :
              ~validate_value(descriptor_of(descriptors, name), overrides[name])
    THEN Raise("Parameter expects type or bounds")
    ELSE LET defaulted == {descriptors[i].name : i \in
                             {j \in 1..Len(descriptors) :
                                 descriptors[j].default_value.has}}
         IN Ok([name \in (DOMAIN overrides) \cup defaulted |->
                  IF name \in defaulted
                  THEN descriptor_of(descriptors, name).default_value.value
                  ELSE overrides[name]])

\* an apply_defaults that fills in a default without validating it
apply_defaults_unchecked_default(descriptors, overrides) ==
    IF \E name \in DOMAIN overrides : name \notin DescriptorNames(descriptors)
    THEN Raise("Unknown parameter")
    ELSE IF \E name \in DOMAIN overrides :
              ~validate_value(descriptor_of(descriptors, name), overrides[name])
    THEN Raise("Parameter expects type or bounds")
    ELSE LET missing == {i \in 1..Len(descriptors) :
                            descriptors[i].name \notin DOMAIN overrides}
         IN IF \E i \in missing :
                  ~descriptors[i].default_value.has /\ descriptors[i].required
            THEN Raise("Missing required parameter")
            ELSE LET defaulted == {descriptors[i].name : i \in
                                     {j \in missing : descriptors[j].default_value.has}}
                 IN Ok([name \in (DOMAIN overrides) \cup defaulted |->
                          IF name \in DOMAIN overrides
                          THEN overrides[name]
                          ELSE descriptor_of(descriptors, name).default_value.value])

\* ParameterSpace::apply_defaults
apply_defaults(descriptors, overrides) ==
    IF \E name \in DOMAIN overrides : name \notin DescriptorNames(descriptors)
    THEN Raise("Unknown parameter")
    ELSE IF \E name \in DOMAIN overrides :
              ~validate_value(descriptor_of(descriptors, name), overrides[name])
    THEN Raise("Parameter expects type or bounds")
    ELSE LET missing == {i \in 1..Len(descriptors) :
                            descriptors[i].name \notin DOMAIN overrides}
         IN IF \E i \in missing :
                  \/ /\ descriptors[i].default_value.has
                     /\ ~validate_value(descriptors[i],
                                        descriptors[i].default_value.value)
                  \/ /\ ~descriptors[i].default_value.has
                     /\ descriptors[i].required
            THEN Raise("Missing required parameter or invalid default")
            ELSE LET defaulted == {descriptors[i].name : i \in
                                     {j \in missing : descriptors[j].default_value.has}}
                 IN Ok([name \in (DOMAIN overrides) \cup defaulted |->
                          IF name \in DOMAIN overrides
                          THEN overrides[name]
                          ELSE descriptor_of(descriptors, name).default_value.value])

\* ------------------------------------------------------------------------
\* Transforms (src/core/search_space.cpp)
\* ------------------------------------------------------------------------
\* validate_transform_bounds: TRUE iff the bounds are accepted
validate_transform_bounds(bounds, transform) ==
    /\ ~(bounds.lower > bounds.upper)
    /\ transform \in {"log", "log2"} => ~(bounds.lower <= 0)
    /\ transform = "sqrt" => ~(bounds.lower < 0)

\* apply_transform with 2^x for log as well
apply_transform_base2(value, transform) ==
    CASE transform = "none" -> value
      [] transform \in {"log", "log2"} -> PowGrid(2, value)
      [] transform = "sqrt" -> (value * value) \div Scale

\* apply_transform: 10^x, 2^x, x*x on the grid
apply_transform(value, transform) ==
    CASE transform = "none" -> value
      [] transform = "log" -> PowGrid(10, value)
      [] transform = "log2" -> PowGrid(2, value)
      [] transform = "sqrt" -> (value * value) \div Scale

\* base^(e/Scale) <= q/Scale, compared exactly on Scale-th powers
LeqPow(base, e, q) ==
    IF e >= 0
    THEN Pow(base, e) * Pow(Scale, Scale) <= Pow(q, Scale)
    ELSE q >= Scale \/ Pow(Scale, Scale) <= Pow(q, Scale) * Pow(base, -e)

\* the grid exponents the logarithms of the model's bounds lie in
LogDomain(base) == IF base = 2 THEN (-2 * Scale)..(5 * Scale)
                   ELSE (-Scale)..(Scale + 1)

\* the logarithm rounded down to the grid: the largest grid exponent e with
\* base^(e/Scale) <= q/Scale, for q > 0
LogGrid(base, q) ==
    CHOOSE e \in LogDomain(base) : LeqPow(base, e, q) /\ ~LeqPow(base, e + 1, q)

\* square root rounded down to the grid: sqrt(q/Scale) * Scale = sqrt(q * Scale)
SqrtGrid(q) == CHOOSE r \in 0..MaxRoot : r * r <= q * Scale /\ q * Scale < (r + 1) * (r + 1)

\* transform_bounds, for bounds validate_transform_bounds accepts
transform_bounds(bounds, transform) ==
    CASE transform = "none" -> bounds
      [] transform = "log" ->
           Range(LogGrid(10, bounds.lower), LogGrid(10, bounds.upper))
      [] transform = "log2" ->
           Range(LogGrid(2, bounds.lower), LogGrid(2, bounds.upper))
      [] transform = "sqrt" ->
           Range(SqrtGrid(bounds.lower), SqrtGrid(bounds.upper))

\* ------------------------------------------------------------------------
\* The tuned algorithm's ParameterSpace and the optional SearchSpace of one
\* optimize() call.  Each scenario is a parameter space as add_descriptor
\* accepts it and a search space built with fix / exclude / optimize /
\* optimize_choices; "none" is a context without search space.
\* ------------------------------------------------------------------------
DescX == Descriptor("x", "Continuous", Range(0, 4 * Scale), NoRange, <<>>,
                    Some(DoubleV(2)), FALSE)
DescN == Descriptor("n", "Integer", NoRange, Range(0, 3), <<>>,
                    Some(IntV(1)), FALSE)
DescB == Descriptor("b", "Boolean", NoRange, NoRange, <<>>,
                    Some(BoolV(FALSE)), FALSE)
DescC == Descriptor("c", "Categorical", NoRange, NoRange, <<"p", "q", "r">>,
                    Some(StringV("p")), FALSE)
\* an integer parameter without declared range and without default
DescM == Descriptor("m", "Integer", NoRange, NoRange, <<>>, NoValue, FALSE)

ScenarioNames ==
    {"plain", "fixed", "custom", "log2", "log10", "choices", "wide", "badfix",
     "allfixed", "allskipped", "empty"}

DescriptorsOf(sc) ==
    CASE sc = "plain" -> <<DescN, DescB>>
      [] sc = "fixed" -> <<DescN, DescX, DescC>>
      [] sc = "custom" -> <<DescX, DescN>>
      [] sc = "log2" -> <<DescX, DescM>>
      [] sc = "log10" -> <<DescB, DescX>>
      [] sc = "choices" -> <<DescC, DescN>>
      [] sc = "wide" -> <<DescX>>
      [] sc = "badfix" -> <<DescN, DescB>>
      [] sc = "allfixed" -> <<DescN>>
      [] sc = "allskipped" -> <<DescN, DescB>>
      [] sc = "empty" -> <<>>

HasSearchSpace(sc) == sc # "plain"

\* SearchSpace::get
SearchSpaceGet(sc, name) ==
    CASE sc = "fixed" /\ name = "n" -> fix(IntV(3))
      [] sc = "fixed" /\ name = "c" -> exclude
      [] sc = "custom" /\ name = "x" -> optimize(Scale, 2 * Scale, "sqrt")
      [] sc = "custom" /\ name = "n" -> optimize_int(1, 2)
      [] sc = "log2" /\ name = "x" -> optimize(Scale \div 2, 3 * Scale, "log2")
      [] sc = "log2" /\ name = "m" -> fix(IntV(7))
      [] sc = "log10" /\ name = "b" -> exclude
      [] sc = "log10" /\ name = "x" -> optimize(Scale, 3 * Scale, "log")
      [] sc = "choices" /\ name = "c" -> optimize_choices(<<StringV("q"), StringV("r")>>)
      [] sc = "choices" /\ name = "n" -> optimize_choices(<<IntV(0), IntV(2), IntV(5)>>)
      [] sc = "wide" /\ name = "x" -> optimize(0, 6 * Scale, "none")
      [] sc = "badfix" /\ name = "n" -> fix(IntV(9))
      [] sc = "allfixed" /\ name = "n" -> fix(IntV(2))
      [] sc = "allskipped" /\ name = "n" -> fix(IntV(2))
      [] sc = "allskipped" /\ name = "b" -> exclude
      [] OTHER -> NoConfig

\* the config lookup at the head of both descriptor loops
\* (if (ctx.search_space) config = ctx.search_space->get(descriptor.name))
ConfigFor(sc, descriptor) ==
    IF HasSearchSpace(sc) THEN SearchSpaceGet(sc, descriptor.name) ELSE NoConfig

\* a skip test that lets excluded descriptors through
Skipped_FixedOnly(config) == config.present /\ config.mode = "fixed"

Skipped(config) == config.present /\ config.mode \in {"fixed", "exclude"}

\* ------------------------------------------------------------------------
\* HyperTuningUdp::get_bounds
\* ------------------------------------------------------------------------
\* the bound pair one optimized descriptor contributes (the switch)
BoundOf(descriptor, config) ==
    CASE descriptor.type = "Continuous" ->
           LET range == IF config.present /\ config.continuous_bounds.has
                        THEN config.continuous_bounds
                        ELSE IF descriptor.continuous_range.has
                        THEN descriptor.continuous_range
                        ELSE Range(-Scale, Scale)
               transform == IF config.present THEN config.transform ELSE "none"
           IN IF validate_transform_bounds(range, transform)
              THEN Ok(transform_bounds(range, transform))
              ELSE Raise("invalid bounds")
      [] descriptor.type = "Integer" ->
           IF config.present /\ config.discrete_choices # <<>>
           THEN Ok(Range(0, Scale * (Len(config.discrete_choices) - 1)))
           ELSE LET range == IF config.present /\ config.integer_bounds.has
                             THEN config.integer_bounds
                             ELSE IF descriptor.integer_range.has
                             THEN descriptor.integer_range
                             ELSE Range(-100, 100)
                IN Ok(Range(Scale * range.lower, Scale * range.upper))
      [] descriptor.type = "Boolean" -> Ok(Range(0, Scale))
      [] descriptor.type = "Categorical" ->
           IF config.present /\ config.discrete_choices # <<>>
           THEN Ok(Range(0, Scale * (Len(config.discrete_choices) - 1)))
           ELSE Ok(Range(0, Scale * (Len(descriptor.categorical_choices) - 1)))

RECURSIVE BoundsFrom(_, _, _)
\* the descriptor loop from position i on
BoundsFrom(sc, descriptors, i) ==
    IF i > Len(descriptors) THEN Ok(<<>>)
    ELSE LET config == ConfigFor(sc, descriptors[i])
             rest == BoundsFrom(sc, descriptors, i + 1)
         IN IF Skipped(config) THEN rest
            ELSE LET b == BoundOf(descriptors[i], config)
                 IN IF ~b.ok THEN b
                    ELSE IF ~rest.ok THEN rest
                    ELSE Ok(<<b.val>> \o rest.val)

RECURSIVE BoundOwnersFrom(_, _, _)
\* the names of the descriptors the loop emits a bound pair for, in the
\* order of the pairs
BoundOwnersFrom(sc, descriptors, i) ==
    IF i > Len(descriptors) THEN <<>>
    ELSE IF Skipped(ConfigFor(sc, descriptors[i]))
    THEN BoundOwnersFrom(sc, descriptors, i + 1)
    ELSE <<descriptors[i].name>> \o BoundOwnersFrom(sc, descriptors, i + 1)

\* bounds emitted without the two emptiness checks
get_bounds_unchecked(sc) == BoundsFrom(sc, DescriptorsOf(sc), 1)

get_bounds(sc) ==
    LET descriptors == DescriptorsOf(sc)
    IN IF descriptors = <<>>
       THEN Raise("Algorithm parameter space is empty")
       ELSE LET bounds == BoundsFrom(sc, descriptors, 1)
            IN IF ~bounds.ok THEN bounds
               ELSE IF bounds.val = <<>>
               THEN Raise("All parameters are fixed or excluded")
               ELSE bounds

\* ------------------------------------------------------------------------
\* HyperTuningUdp::fitness, decoding part
\* ------------------------------------------------------------------------
\* the rounded, clamped ordinal into a choice list of the given size
\* (index_value, 0-based)
ChoiceIndex(value, size) == clamp(llround(value), 0, size - 1)

\* a decode that forgets a search space's custom bounds and clamps into the
\* declared range only
ContinuousRangeOf_Declared(descriptor, config) ==
    IF descriptor.continuous_range.has
    THEN descriptor.continuous_range
    ELSE Range(-10000 * Scale, 10000 * Scale)

\* the range a Continuous slot is clamped into (lines 178-185); the
\* fallback for a descriptor without range, +-1e10, lies beyond every grid
\* value of the model
ContinuousRangeOf(descriptor, config) ==
    IF config.present /\ config.continuous_bounds.has
    THEN config.continuous_bounds
    ELSE IF descriptor.continuous_range.has
    THEN descriptor.continuous_range
    ELSE Range(-10000 * Scale, 10000 * Scale)

\* the range an Integer slot is clamped into (lines 202-207)
IntegerRangeOf(descriptor, config) ==
    IF config.present /\ config.integer_bounds.has
    THEN config.integer_bounds
    ELSE IF descriptor.integer_range.has
    THEN descriptor.integer_range
    ELSE Range(-100, 100)

\* the value one optimized descriptor takes from its slot (the switch);
\* a Categorical descriptor without choices raises
DecodeSlot(descriptor, config, value) ==
    CASE descriptor.type = "Continuous" ->
           LET range == ContinuousRangeOf(descriptor, config)
               transform == IF config.present THEN config.transform ELSE "none"
               numeric == apply_transform(value, transform)
           IN Ok(DoubleV(clamp(numeric, range.lower, range.upper)))
      [] descriptor.type = "Integer" ->
           IF config.present /\ config.discrete_choices # <<>>
           THEN LET choices == config.discrete_choices
                IN Ok(choices[ChoiceIndex(value, Len(choices)) + 1])
           ELSE LET range == IntegerRangeOf(descriptor, config)
                IN Ok(IntV(clamp(llround(value), range.lower, range.upper)))
      [] descriptor.type = "Boolean" -> Ok(BoolV(value > Scale \div 2))
      [] descriptor.type = "Categorical" ->
           IF config.present /\ config.discrete_choices # <<>>
           THEN LET choices == config.discrete_choices
                IN Ok(choices[ChoiceIndex(value, Len(choices)) + 1])
           ELSE LET choices == descriptor.categorical_choices
                IN IF choices = <<>>
                   THEN Raise("Categorical descriptor without choices")
                   ELSE Ok(StringV(choices[ChoiceIndex(value, Len(choices)) + 1]))

\* parameters.emplace(name, value): keeps an entry that is already there
Emplace(parameters, name, value) ==
    IF name \in DOMAIN parameters THEN parameters
    ELSE [nm \in (DOMAIN parameters) \cup {name} |->
            IF nm = name THEN value ELSE parameters[nm]]

EmptySet == [nm \in {} |-> IntV(0)]

\* a decode that skips a fixed parameter like an excluded one
FixedEntry_Skip(parameters, descriptor, config) == parameters

\* the fixed branch (lines 163-167): the pinned value, if there is one,
\* enters the set
FixedEntry(parameters, descriptor, config) ==
    IF config.fixed_value.has
    THEN Emplace(parameters, descriptor.name, config.fixed_value.value)
    ELSE parameters

RECURSIVE DecodeFrom(_, _, _, _, _, _)
\* the descriptor loop from position i on, candidate_index slots consumed
\* so far (0-based in the code, so the next slot is candidate_index + 1)
DecodeFrom(sc, descriptors, candidate, i, candidate_index, parameters) ==
    IF i > Len(descriptors) THEN Ok(parameters)
    ELSE LET descriptor == descriptors[i]
             config == ConfigFor(sc, descriptor)
         IN IF config.present /\ config.mode = "fixed"
            THEN DecodeFrom(sc, descriptors, candidate, i + 1, candidate_index,
                            FixedEntry(parameters, descriptor, config))
            ELSE IF config.present /\ config.mode = "exclude"
            THEN DecodeFrom(sc, descriptors, candidate, i + 1, candidate_index,
                            parameters)
            ELSE LET value == candidate[candidate_index + 1]
                     decoded == DecodeSlot(descriptor, config, value)
                 IN IF ~decoded.ok THEN decoded
                    ELSE DecodeFrom(sc, descriptors, candidate, i + 1,
                                    candidate_index + 1,
                                    Emplace(parameters, descriptor.name, decoded.val))

RECURSIVE SlotOwnersFrom(_, _, _)
\* the names of the descriptors the loop decodes a slot for, in the order
\* of the slots (candidate_index is the length of the list so far)
SlotOwnersFrom(sc, descriptors, i) ==
    IF i > Len(descriptors) THEN <<>>
    ELSE LET entry == ConfigFor(sc, descriptors[i])
         IN IF entry.present /\ entry.mode = "fixed"
            THEN SlotOwnersFrom(sc, descriptors, i + 1)
            ELSE IF entry.present /\ entry.mode = "exclude"
            THEN SlotOwnersFrom(sc, descriptors, i + 1)
            ELSE <<descriptors[i].name>>
                    \o SlotOwnersFrom(sc, descriptors, i + 1)

\* number of candidate slots the loop consumes
SlotsConsumed(sc) ==
    Cardinality({i \in 1..Len(DescriptorsOf(sc)) :
                    ~Skipped(ConfigFor(sc, DescriptorsOf(sc)[i]))})

\* lines 147-242: the decoded set passed through apply_defaults
DecodeCandidate(sc, candidate) ==
    LET descriptors == DescriptorsOf(sc)
        decoded == DecodeFrom(sc, descriptors, candidate, 1, 0, EmptySet)
    IN IF ~decoded.ok THEN decoded
       ELSE apply_defaults(descriptors, decoded.val)

\* ------------------------------------------------------------------------
\* State of one optimize() call on one HyperTuningUdp::Context
\* ------------------------------------------------------------------------
VARIABLES
    scenario,      \* the factory's parameter space and ctx.search_space
    plan,          \* the outer optimizer: threads it uses, calls it makes,
                   \* slot values it proposes
    base_seed,     \* ctx.base_seed
    trials,        \* *ctx.trials, the ledger
    best_trial,    \* ctx.best_trial (std::optional)
    evaluations,   \* ctx.evaluations
    mutex,         \* the threads inside a scoped_lock on ctx.mutex
    opt_pc,        \* position of optimize(): "start", "evolving", "returned"
    dimension,     \* lower.size() of get_bounds()
    pc,            \* position of each thread inside fitness()
    candidate_of,  \* the candidate each running call was given
    parameters,    \* the parameters local of each running call
    seed_read,     \* the value of ctx.evaluations each call read
    eval_seed,     \* the eval_seed local of each running call
    started,       \* fitness() calls begun
    exc,           \* the exception in flight out of evolve(), "" if none
    result,        \* the HyperparameterOptimizationResult of optimize()
    handed,        \* history: eval_seed values in the order handed out
    returned,      \* history: the values fitness() returned, in order
    cand_log,      \* history: the candidate of each recorded trial
    threw          \* history: calls that raised, by origin

bridge_vars == <<scenario, plan, base_seed, trials, best_trial, evaluations,
                 mutex, opt_pc, dimension, pc, candidate_of, parameters,
                 seed_read, eval_seed, started, exc, result,
                 handed, returned, cand_log, threw>>

\* ------------------------------------------------------------------------
\* State of one run_experiment call (ParallelExperimentManager, or
\* SequentialExperimentManager, which uses the calling thread's part of it)
\* ------------------------------------------------------------------------
VARIABLES
    config,                \* ExperimentConfig: islands, trials_per_optimizer
    mgr_pc,                \* position of the calling thread
    seeds,                 \* the seeds vector
    optimization_results,  \* the pre-sized results vector
    spawned,               \* workers emplaced so far (island_idx of the loop)
    wpc,                   \* position of each worker
    trial,                 \* the loop variable of each worker
    end_trial,             \* end_trial of each worker
    logger_mutex,          \* the workers inside the scoped_lock on logger_mutex
    log_index,             \* position of each worker in the logging loop
    log,                   \* what logger.log() received, in order
    flushes,               \* number of logger.flush() calls
    experiment_result,     \* result.optimizer_results once returned
    optimize_calls,        \* history: per trial, the seeds optimize() was called with
    writers,               \* history: per trial, the workers that stored a result
    call_history           \* history: the calls the calling thread made on the
                           \* optimizer and the logger, in order

mgr_vars == <<config, mgr_pc, seeds, optimization_results, spawned, wpc, trial,
              end_trial, logger_mutex, log_index, log, flushes,
              experiment_result, optimize_calls, writers,
              call_history>>

\* ------------------------------------------------------------------------
\* State of one budgeted call: IEvolutionaryAlgorithm::run or
\* IHyperparameterOptimizer::optimize
\* ------------------------------------------------------------------------
VARIABLES
    run_callee,      \* the implementation called
    run_parameters,  \* its configured_parameters_ (the entries the caps use)
    run_budget,      \* the Budget argument
    run_dimension,   \* optimize(): lower.size() of get_bounds()
    run_pc,          \* "configured" before the call, "returned" after it
    run_result       \* the returned result: status and budget_usage

run_vars == <<run_callee, run_parameters, run_budget, run_dimension, run_pc,
              run_result>>

\* ------------------------------------------------------------------------
\* State of one ParameterSpace and of the last call made on it
\* ------------------------------------------------------------------------
VARIABLES
    descriptors_,    \* ParameterSpace::descriptors_
    space_call,      \* the last call: operation, argument, whether it
                     \* raised, what it returned, descriptors_ before it
    inserted         \* history: the descriptors add_descriptor accepted,
                     \* in the order of the calls

space_vars == <<descriptors_, space_call, inserted>>

\* ------------------------------------------------------------------------
\* State of one SearchSpace and of the last call made on it
\* ------------------------------------------------------------------------
VARIABLES
    configs_,        \* SearchSpace::configs_
    search_call      \* the last call: operation, name, argument, whether it
                     \* raised, what it returned, configs_ before it

search_vars == <<configs_, search_call>>

vars == <<bridge_vars, mgr_vars, run_vars, space_vars, search_vars>>

\* what a step of the bridge, of an experiment manager, of a budgeted call,
\* of a parameter space leaves alone
outside_bridge == <<mgr_vars, run_vars, space_vars, search_vars>>
outside_manager == <<bridge_vars, run_vars, space_vars, search_vars>>
outside_run == <<bridge_vars, mgr_vars, space_vars, search_vars>>
outside_space == <<bridge_vars, mgr_vars, run_vars, search_vars>>
outside_search == <<bridge_vars, mgr_vars, run_vars, space_vars>>

\* slot values the outer optimizer may propose (grid values): inside and
\* outside the emitted bounds, with halves for the rounding
SlotValues == {-Scale, 1, Scale \div 2, Scale + 1, Scale + 2, 5 * Scale}
\* 10^x stays representable up to x = 1.5
SlotValuesOf(sc) == IF sc = "log10" THEN SlotValues \ {5 * Scale} ELSE SlotValues

BaseSeeds == {3, SeedMod - 1}

\* what IEvolutionaryAlgorithm::run may return: status, best_fitness and
\* message (PagmoDifferentialEvolution::run, PagmoSelfAdaptiveDE::run:
\* Success or BudgetExceeded with the champion's fitness, InternalError
\* with the default best_fitness, infinity)
RunOutcomes ==
    {[status |-> "Success", best_fitness |-> Num(2), message |-> "completed"],
     [status |-> "Success", best_fitness |-> NaN, message |-> "completed"],
     [status |-> "BudgetExceeded", best_fitness |-> Num(1),
      message |-> "wall-time budget exceeded"],
     [status |-> "InternalError", best_fitness |-> Inf, message |-> "ex.what()"]}

NoRecord == [has |-> FALSE]
NoLocal == <<>>

\* HyperparameterOptimizationResult as optimize() initialises it
InitialResult(seed) ==
    [status |-> "InternalError", best_parameters |-> EmptySet,
     best_objective |-> Inf, trials |-> <<>>, function_evaluations |-> 0,
     seed |-> seed, message |-> ""]

InitBridge(scenarios, threads, calls, slots, base_seeds) ==
    /\ scenario \in scenarios
    /\ plan = [threads |-> threads, calls |-> calls, slots |-> slots]
    /\ base_seed \in base_seeds
    /\ trials = <<>>
    /\ best_trial = NoRecord
    /\ evaluations = 0
    /\ mutex = {}
    /\ opt_pc = "start"
    /\ dimension = 0
    /\ pc = [t \in Threads |-> "idle"]
    /\ candidate_of = [t \in Threads |-> NoLocal]
    /\ parameters = [t \in Threads |-> NoLocal]
    /\ seed_read = [t \in Threads |-> 0]
    /\ eval_seed = [t \in Threads |-> 0]
    /\ started = 0
    /\ exc = ""
    /\ result = InitialResult(base_seed)
    /\ handed = <<>>
    /\ returned = <<>>
    /\ cand_log = <<>>
    /\ threw = <<>>

\* ------------------------------------------------------------------------
\* optimize() and fitness(), step by step
\* ------------------------------------------------------------------------
Workers == 1..plan.threads

\* a seed block that takes no lock
CanLock_NoMutex(t) == TRUE

\* std::scoped_lock lock(ctx.mutex) can be entered
CanLock(t) == mutex = {}

\* a seed derived with a pre-increment of the counter
SeedFor_PreIncrement(base, counter) == (base + counter + 1) % SeedMod

\* ctx.base_seed + static_cast<unsigned long>(ctx.evaluations++)
SeedFor(base, counter) == (base + counter) % SeedMod

\* a comparison that also replaces the best trial on a tie
should_update_best_ties(record, best) ==
    \/ ~best.has
    \/ ~Less(best.record.optimization_result.best_fitness,
             record.optimization_result.best_fitness)

\* should_update_best
should_update_best(record, best) ==
    \/ ~best.has
    \/ Less(record.optimization_result.best_fitness,
            best.record.optimization_result.best_fitness)

\* a ledger that grows at the front
push_front(ledger, record) == <<record>> \o ledger

\* a ledger that keeps successful runs only
push_back_success_only(ledger, record) ==
    IF record.optimization_result.status = "Success"
    THEN Append(ledger, record)
    ELSE ledger

\* ctx.trials->push_back(record)
push_back(ledger, record) == Append(ledger, record)

\* the catch block of optimize()
Caught(res, what) == [res EXCEPT !.status = "InternalError", !.message = what]

\* a result that reports the calls made rather than the counter
Completed_CountsLedgerPlusOne(res, ledger, best, counter) ==
    [res EXCEPT !.status = "Success",
                !.trials = ledger,
                !.function_evaluations = Len(ledger) + 1,
                !.message = "Hyperparameter optimization completed."]

\* the result of optimize() after evolve() returned
Completed(res, ledger, best, counter) ==
    [res EXCEPT !.status = "Success",
                !.trials = ledger,
                !.best_parameters = IF best.has THEN best.record.parameters
                                    ELSE @,
                !.best_objective =
                    IF best.has
                    THEN best.record.optimization_result.best_fitness
                    ELSE @,
                !.function_evaluations = counter,
                !.message = "Hyperparameter optimization completed."]

\* optimize() up to the evolve() call: get_bounds() either gives the
\* dimension of the tuning problem or raises into the catch block
GetBounds ==
    /\ opt_pc = "start"
    /\ LET bounds == get_bounds(scenario)
       IN IF bounds.ok
          THEN /\ opt_pc' = "evolving"
               /\ dimension' = Len(bounds.val)
               /\ UNCHANGED <<result, threw>>
          ELSE /\ opt_pc' = "returned"
               /\ result' = Caught(result, bounds.what)
               /\ threw' = Append(threw, "get_bounds")
               /\ UNCHANGED dimension
    /\ UNCHANGED outside_bridge
    /\ UNCHANGED <<scenario, plan, base_seed, trials, best_trial, evaluations,
                   mutex, pc, candidate_of, parameters, seed_read, eval_seed,
                   started, exc, handed, returned, cand_log>>

\* fitness() lines 147-245: decode the candidate, apply_defaults, create
\* and configure the algorithm; each of them may raise out of fitness().
\* The outer optimizer's threads are interchangeable: the next call is
\* taken by the idle thread of the lowest index
FitnessBegin(t, candidate, configure_raises) ==
    /\ opt_pc = "evolving"
    /\ exc = ""
    /\ pc[t] = "idle"
    /\ \A u \in Workers : u < t => pc[u] # "idle"
    /\ started < plan.calls
    /\ started' = started + 1
    /\ LET decoded == DecodeCandidate(scenario, candidate)
       IN IF ~decoded.ok
          THEN /\ exc' = decoded.what
               /\ threw' = Append(threw, "decode")
               /\ UNCHANGED <<pc, candidate_of, parameters>>
          ELSE IF configure_raises
          THEN /\ exc' = "configure"
               /\ threw' = Append(threw, "configure")
               /\ UNCHANGED <<pc, candidate_of, parameters>>
          ELSE /\ pc' = [pc EXCEPT ![t] = "configured"]
               /\ candidate_of' = [candidate_of EXCEPT ![t] = candidate]
               /\ parameters' = [parameters EXCEPT ![t] = decoded.val]
               /\ UNCHANGED <<exc, threw>>
    /\ UNCHANGED outside_bridge
    /\ UNCHANGED <<scenario, plan, base_seed, trials, best_trial, evaluations,
                   mutex, opt_pc, dimension, seed_read, eval_seed, result, handed, returned, cand_log>>

\* lines 248-249: enter the lock and read ctx.evaluations
FitnessSeedRead(t) ==
    /\ pc[t] = "configured"
    /\ CanLock(t)
    /\ mutex' = mutex \cup {t}
    /\ seed_read' = [seed_read EXCEPT ![t] = evaluations]
    /\ pc' = [pc EXCEPT ![t] = "seed_read"]
    /\ UNCHANGED outside_bridge
    /\ UNCHANGED <<scenario, plan, base_seed, trials, best_trial, evaluations,
                   opt_pc, dimension, candidate_of, parameters, eval_seed,
                   started, exc, result, handed, returned,
                   cand_log, threw>>

\* lines 249-250: store the incremented counter, form eval_seed, leave the
\* lock
FitnessSeedWrite(t) ==
    /\ pc[t] = "seed_read"
    /\ evaluations' = seed_read[t] + 1
    /\ eval_seed' = [eval_seed EXCEPT ![t] = SeedFor(base_seed, seed_read[t])]
    /\ handed' = Append(handed, SeedFor(base_seed, seed_read[t]))
    /\ seed_read' = [seed_read EXCEPT ![t] = 0]
    /\ mutex' = mutex \ {t}
    /\ pc' = [pc EXCEPT ![t] = "seeded"]
    /\ UNCHANGED outside_bridge
    /\ UNCHANGED <<scenario, plan, base_seed, trials, best_trial, opt_pc,
                   dimension, candidate_of, parameters, started,
                   exc, result, returned, cand_log, threw>>

\* lines 252-253 when run() raises: fitness() has no handler, the
\* exception leaves it
FitnessRunRaises(t) ==
    /\ pc[t] = "seeded"
    /\ exc' = "run"
    /\ threw' = Append(threw, "run")
    /\ pc' = [pc EXCEPT ![t] = "idle"]
    /\ candidate_of' = [candidate_of EXCEPT ![t] = NoLocal]
    /\ parameters' = [parameters EXCEPT ![t] = NoLocal]
    /\ eval_seed' = [eval_seed EXCEPT ![t] = 0]
    /\ UNCHANGED outside_bridge
    /\ UNCHANGED <<scenario, plan, base_seed, trials, best_trial, evaluations,
                   mutex, opt_pc, dimension, seed_read, started,
                   result, handed, returned, cand_log>>

\* lines 252-273: algorithm->run(problem, budget, eval_seed) returns a
\* result carrying the seed it was given; build the record, and under the
\* lock append it and update the best trial; return the record's
\* best_fitness. run() works on locals only, so its return is taken
\* together with the locked block that follows it
FitnessRecord(t, outcome) ==
    /\ pc[t] = "seeded"
    /\ CanLock(t)
    /\ LET optimization_result == [status |-> outcome.status,
                                   best_fitness |-> outcome.best_fitness,
                                   seed |-> eval_seed[t],
                                   message |-> outcome.message]
           record == [parameters |-> parameters[t],
                      optimization_result |-> optimization_result]
       IN /\ trials' = push_back(trials, record)
          /\ best_trial' = IF should_update_best(record, best_trial)
                           THEN [has |-> TRUE, record |-> record]
                           ELSE best_trial
          /\ returned' = Append(returned, record.optimization_result.best_fitness)
    /\ cand_log' = Append(cand_log, candidate_of[t])
    /\ pc' = [pc EXCEPT ![t] = "idle"]
    /\ candidate_of' = [candidate_of EXCEPT ![t] = NoLocal]
    /\ parameters' = [parameters EXCEPT ![t] = NoLocal]
    /\ eval_seed' = [eval_seed EXCEPT ![t] = 0]
    /\ UNCHANGED outside_bridge
    /\ UNCHANGED <<scenario, plan, base_seed, evaluations, mutex, opt_pc,
                   dimension, seed_read, started, exc, result, handed, threw>>

AllIdle == \A t \in Threads : pc[t] = "idle"

\* optimize() lines 341-356: evolve() returned, the ledger is moved into
\* the result
OptimizeReturn ==
    /\ opt_pc = "evolving"
    /\ exc = ""
    /\ AllIdle
    /\ started >= 1
    /\ result' = Completed(result, trials, best_trial, evaluations)
    /\ trials' = <<>>
    /\ opt_pc' = "returned"
    /\ UNCHANGED outside_bridge
    /\ UNCHANGED <<scenario, plan, base_seed, best_trial, evaluations, mutex,
                   dimension, pc, candidate_of, parameters, seed_read,
                   eval_seed, started, exc, handed, returned,
                   cand_log, threw>>

\* optimize() lines 357-360: an exception left evolve()
OptimizeCatch ==
    /\ opt_pc = "evolving"
    /\ exc # ""
    /\ AllIdle
    /\ result' = Caught(result, exc)
    /\ opt_pc' = "returned"
    /\ UNCHANGED outside_bridge
    /\ UNCHANGED <<scenario, plan, base_seed, trials, best_trial, evaluations,
                   mutex, dimension, pc, candidate_of, parameters, seed_read,
                   eval_seed, started, exc, handed, returned,
                   cand_log, threw>>

Candidates == [1..dimension -> plan.slots \cap SlotValuesOf(scenario)]

BridgeNext ==
    \/ GetBounds
    \/ \E t \in Workers, candidate \in Candidates, configure_raises \in BOOLEAN :
          FitnessBegin(t, candidate, configure_raises)
    \/ \E t \in Workers : FitnessSeedRead(t)
    \/ \E t \in Workers : FitnessSeedWrite(t)
    \/ \E t \in Workers : FitnessRunRaises(t)
    \/ \E t \in Workers, outcome \in RunOutcomes : FitnessRecord(t, outcome)
    \/ OptimizeReturn
    \/ OptimizeCatch

\* ------------------------------------------------------------------------
\* ParallelExperimentManager::run_experiment (src/core/experiment.cpp)
\* ------------------------------------------------------------------------
Min(a, b) == IF a < b THEN a ELSE b

Islands == 0..(MaxIslands - 1)

\* values std::random_device may seed the generator with
SeedDraws == {5, 9}

\* std::mt19937: a draw is a function of the generator's state, which is
\* identified with the previous draw (a full-period congruential step
\* stands for the twister)
mt19937(state) == (5 * state + 3) % SeedMod

\* what the next rng() of the seed loop can give
NextDraws(seed_vector) ==
    IF seed_vector = <<>>
    THEN SeedDraws
    ELSE {mt19937(seed_vector[Len(seed_vector)])}

\* std::min(config.islands, config.trials_per_optimizer)
num_islands(cfg) == Min(cfg.islands, cfg.trials_per_optimizer)

\* a slice length rounded down
trials_per_island_floor(cfg) == cfg.trials_per_optimizer \div num_islands(cfg)

\* (config.trials_per_optimizer + num_islands - 1) / num_islands
trials_per_island(cfg) ==
    (cfg.trials_per_optimizer + num_islands(cfg) - 1) \div num_islands(cfg)

\* island_idx * trials_per_island
start_trial(cfg, island_idx) == island_idx * trials_per_island(cfg)

\* std::min(start_trial + trials_per_island, config.trials_per_optimizer)
end_trial_for(cfg, island_idx) ==
    Min(start_trial(cfg, island_idx) + trials_per_island(cfg),
        cfg.trials_per_optimizer)

\* a default-constructed HyperparameterOptimizationResult
DefaultOptimizationResult ==
    [status |-> "InternalError", of_call |-> -1, seed |-> 0, trials |-> <<>>]

\* std::optional<std::size_t> of a Budget
NoCap == [has |-> FALSE, value |-> 0]
Cap(n) == [has |-> TRUE, value |-> n]

\* ExperimentConfig::algorithm_budget and ExperimentConfig::optimizer_budget
\* of the experiment: two different budgets
AlgorithmBudget == [generations |-> Cap(2), function_evaluations |-> NoCap]
OptimizerBudget == [generations |-> Cap(3), function_evaluations |-> Cap(10)]

\* what IHyperparameterOptimizer::optimize(.., seed) returns: the status,
\* a ledger of inner trials seeded seed, seed+1, .. and its own seed field;
\* of_call is a history tag naming the trial the call was made for
OptimizeResult(seed, status, inner, sets_seed, tr) ==
    [status |-> status,
     of_call |-> tr,
     seed |-> IF sets_seed THEN seed ELSE 0,
     trials |-> [j \in 1..inner |->
                   [status |-> status, algorithm_seed |-> SeedFor(seed, j - 1)]]]

\* optimizer.optimize(algorithm_factory, problem, budget, seed): the
\* context is made with ctx->algorithm_budget = budget, and every
\* fitness() call runs the algorithm under ctx.algorithm_budget; run_budget
\* is a history field naming the budget the run of each trial received
optimizer_optimize(seed, status, inner, sets_seed, tr, budget) ==
    LET ctx == [algorithm_budget |-> budget]
        returned_result == OptimizeResult(seed, status, inner, sets_seed, tr)
    IN [status |-> returned_result.status,
        of_call |-> returned_result.of_call,
        seed |-> returned_result.seed,
        trials |-> [j \in 1..Len(returned_result.trials) |->
                      [status |-> returned_result.trials[j].status,
                       algorithm_seed |->
                           returned_result.trials[j].algorithm_seed,
                       run_budget |-> ctx.algorithm_budget]]]

\* optimization_result.seed = optimizer_seed (line 133)
StoreSeed(optimization_result, optimizer_seed) ==
    [optimization_result EXCEPT !.seed = optimizer_seed]

\* a worker that takes the seed at its own index
SeedOfTrial_ByIsland(seed_vector, island_idx, tr) == seed_vector[island_idx + 1]

\* the seed a worker takes for a trial: seeds[trial] (line 130)
SeedOfTrial(seed_vector, island_idx, tr) == seed_vector[tr + 1]

\* the RunRecord of one trial record (lines 141-153); of_trial is a history
\* tag naming the outer trial
RunRecord(trial_record, optimizer_seed, tr) ==
    [status |-> trial_record.status,
     algorithm_seed |-> trial_record.algorithm_seed,
     optimizer_seed |-> optimizer_seed,
     of_trial |-> tr]

\* one entry of the call history: the operation, and for optimize and log
\* the outer trial and the position of the logged record in its ledger
Call(op, tr, index) == [op |-> op, of_trial |-> tr, index |-> index]

InitManager(islands, counts) ==
    /\ config \in [islands : islands, trials_per_optimizer : counts,
                    algorithm_budget : {AlgorithmBudget},
                    optimizer_budget : {OptimizerBudget}]
    /\ mgr_pc = "start"
    /\ seeds = <<>>
    /\ optimization_results = <<>>
    /\ spawned = 0
    /\ wpc = [w \in Islands |-> "unstarted"]
    /\ trial = [w \in Islands |-> 0]
    /\ end_trial = [w \in Islands |-> 0]
    /\ logger_mutex = {}
    /\ log_index = [w \in Islands |-> 0]
    /\ log = <<>>
    /\ flushes = 0
    /\ experiment_result = <<>>
    /\ optimize_calls = <<>>
    /\ writers = <<>>
    /\ call_history = <<>>

\* lines 88-105: the argument checks, then optimizer.configure
CheckConfig ==
    /\ mgr_pc = "start"
    /\ IF config.trials_per_optimizer = 0 \/ config.islands = 0
       THEN mgr_pc' = "rejected" /\ UNCHANGED call_history
       ELSE mgr_pc' = "seeding" /\ call_history' = Append(call_history, Call("configure", 0, 0))
    /\ UNCHANGED outside_manager
    /\ UNCHANGED <<config, seeds, optimization_results, spawned, wpc, trial,
                   end_trial, logger_mutex, log_index, log, flushes,
                   experiment_result, optimize_calls, writers>>

\* lines 111-113: one iteration of the seed loop
DrawSeed(drawn) ==
    /\ mgr_pc = "seeding"
    /\ Len(seeds) < config.trials_per_optimizer
    /\ seeds' = Append(seeds, drawn)
    /\ UNCHANGED outside_manager
    /\ UNCHANGED call_history
    /\ UNCHANGED <<config, mgr_pc, optimization_results, spawned, wpc, trial,
                   end_trial, logger_mutex, log_index, log, flushes,
                   experiment_result, optimize_calls, writers>>

\* lines 115-122: the seed loop is over, the results vector is sized
PrepareWorkers ==
    /\ mgr_pc = "seeding"
    /\ Len(seeds) = config.trials_per_optimizer
    /\ optimization_results' =
          [i \in 0..(config.trials_per_optimizer - 1) |-> DefaultOptimizationResult]
    /\ optimize_calls' = [i \in 0..(config.trials_per_optimizer - 1) |-> <<>>]
    /\ writers' = [i \in 0..(config.trials_per_optimizer - 1) |-> <<>>]
    /\ mgr_pc' = "spawning"
    /\ UNCHANGED outside_manager
    /\ UNCHANGED call_history
    /\ UNCHANGED <<config, seeds, spawned, wpc, trial, end_trial, logger_mutex,
                   log_index, log, flushes, experiment_result>>

\* lines 124-125: workers.emplace_back starts the next worker
SpawnWorker ==
    /\ mgr_pc = "spawning"
    /\ spawned < num_islands(config)
    /\ wpc' = [wpc EXCEPT ![spawned] = "entry"]
    /\ spawned' = spawned + 1
    /\ UNCHANGED outside_manager
    /\ UNCHANGED call_history
    /\ UNCHANGED <<config, mgr_pc, seeds, optimization_results, trial,
                   end_trial, logger_mutex, log_index, log, flushes,
                   experiment_result, optimize_calls, writers>>

\* lines 126-129: the worker computes its slice
WorkerEnter(w) ==
    /\ wpc[w] = "entry"
    /\ trial' = [trial EXCEPT ![w] = start_trial(config, w)]
    /\ end_trial' = [end_trial EXCEPT ![w] = end_trial_for(config, w)]
    /\ wpc' = [wpc EXCEPT ![w] = "loop"]
    /\ UNCHANGED outside_manager
    /\ UNCHANGED call_history
    /\ UNCHANGED <<config, mgr_pc, seeds, optimization_results, spawned,
                   logger_mutex, log_index, log, flushes, experiment_result,
                   optimize_calls, writers>>

\* lines 129-136: one optimize() call, stored at the trial's index
WorkerOptimize(w, status, inner, sets_seed) ==
    /\ wpc[w] = "loop"
    /\ trial[w] < end_trial[w]
    /\ LET optimizer_seed == SeedOfTrial(seeds, w, trial[w])
           optimization_result ==
               StoreSeed(optimizer_optimize(optimizer_seed, status, inner,
                                            sets_seed, trial[w],
                                            config.optimizer_budget),
                         optimizer_seed)
       IN /\ optimization_results' =
                [optimization_results EXCEPT ![trial[w]] = optimization_result]
          /\ optimize_calls' =
                [optimize_calls EXCEPT ![trial[w]] = Append(@, optimizer_seed)]
          /\ writers' = [writers EXCEPT ![trial[w]] = Append(@, w)]
    /\ wpc' = [wpc EXCEPT ![w] = "stored"]
    /\ UNCHANGED outside_manager
    /\ UNCHANGED call_history
    /\ UNCHANGED <<config, mgr_pc, seeds, spawned, trial, end_trial,
                   logger_mutex, log_index, log, flushes, experiment_result>>

\* a logging block that takes no lock
CanLockLogger_NoMutex(w) == TRUE

\* std::scoped_lock lock(logger_mutex) can be entered
CanLockLogger(w) == logger_mutex = {}

\* line 139: the worker enters the logger lock
WorkerLogLock(w) ==
    /\ wpc[w] = "stored"
    /\ CanLockLogger(w)
    /\ logger_mutex' = logger_mutex \cup {w}
    /\ log_index' = [log_index EXCEPT ![w] = 1]
    /\ wpc' = [wpc EXCEPT ![w] = "logging"]
    /\ UNCHANGED outside_manager
    /\ UNCHANGED call_history
    /\ UNCHANGED <<config, mgr_pc, seeds, optimization_results, spawned, trial,
                   end_trial, log, flushes, experiment_result, optimize_calls,
                   writers>>

\* lines 140-156: one iteration of the logging loop
WorkerLog(w) ==
    /\ wpc[w] = "logging"
    /\ log_index[w] <= Len(optimization_results[trial[w]].trials)
    /\ log' = Append(log,
                 RunRecord(optimization_results[trial[w]].trials[log_index[w]],
                           SeedOfTrial(seeds, w, trial[w]), trial[w]))
    /\ log_index' = [log_index EXCEPT ![w] = @ + 1]
    /\ UNCHANGED outside_manager
    /\ UNCHANGED call_history
    /\ UNCHANGED <<config, mgr_pc, seeds, optimization_results, spawned, wpc,
                   trial, end_trial, logger_mutex, flushes, experiment_result,
                   optimize_calls, writers>>

\* lines 157-158: the logging loop is over, the lock is left, ++trial
WorkerLogUnlock(w) ==
    /\ wpc[w] = "logging"
    /\ log_index[w] > Len(optimization_results[trial[w]].trials)
    /\ logger_mutex' = logger_mutex \ {w}
    /\ log_index' = [log_index EXCEPT ![w] = 0]
    /\ trial' = [trial EXCEPT ![w] = @ + 1]
    /\ wpc' = [wpc EXCEPT ![w] = "loop"]
    /\ UNCHANGED outside_manager
    /\ UNCHANGED call_history
    /\ UNCHANGED <<config, mgr_pc, seeds, optimization_results, spawned,
                   end_trial, log, flushes, experiment_result, optimize_calls,
                   writers>>

\* line 129: the worker's loop condition fails, the thread ends
WorkerExit(w) ==
    /\ wpc[w] = "loop"
    /\ ~(trial[w] < end_trial[w])
    /\ wpc' = [wpc EXCEPT ![w] = "finished"]
    /\ UNCHANGED outside_manager
    /\ UNCHANGED call_history
    /\ UNCHANGED <<config, mgr_pc, seeds, optimization_results, spawned, trial,
                   end_trial, logger_mutex, log_index, log, flushes,
                   experiment_result, optimize_calls, writers>>

\* lines 162-169: every worker is joined, the results are moved into the
\* ExperimentResult, the logger is flushed
JoinAndReturn ==
    /\ mgr_pc = "spawning"
    /\ spawned = num_islands(config)
    /\ \A w \in Islands : w < spawned => wpc[w] = "finished"
    /\ experiment_result' = optimization_results
    /\ optimization_results' = <<>>
    /\ flushes' = flushes + 1
    /\ call_history' = Append(call_history, Call("flush", 0, 0))
    /\ mgr_pc' = "done"
    /\ UNCHANGED outside_manager
    /\ UNCHANGED <<config, seeds, spawned, wpc, trial, end_trial, logger_mutex,
                   log_index, log, optimize_calls, writers>>

\* what optimize() may return: Success with a ledger, or InternalError from
\* its catch block, without ledger
OptimizeOutcomes == {[status |-> "Success", inner |-> MaxInnerTrials],
                     [status |-> "InternalError", inner |-> 0]}

ManagerNext ==
    \/ CheckConfig
    \/ \E drawn \in NextDraws(seeds) : DrawSeed(drawn)
    \/ PrepareWorkers
    \/ SpawnWorker
    \/ \E w \in Islands : WorkerEnter(w)
    \/ \E w \in Islands, outcome \in OptimizeOutcomes, sets_seed \in BOOLEAN :
          WorkerOptimize(w, outcome.status, outcome.inner, sets_seed)
    \/ \E w \in Islands : WorkerLogLock(w)
    \/ \E w \in Islands : WorkerLog(w)
    \/ \E w \in Islands : WorkerLogUnlock(w)
    \/ \E w \in Islands : WorkerExit(w)
    \/ JoinAndReturn

\* ------------------------------------------------------------------------
\* SequentialExperimentManager::run_experiment (src/core/experiment.cpp);
\* the calling thread's loop variable and log position are those of index 0
\* ------------------------------------------------------------------------
\* a results list that grows at the front
optimizer_results_push_front(results, optimization_result) ==
    [i \in 0..Cardinality(DOMAIN results) |->
        IF i = 0 THEN optimization_result ELSE results[i - 1]]

\* result.optimizer_results.push_back(std::move(optimization_result))
optimizer_results_push_back(results, optimization_result) ==
    [i \in 0..Cardinality(DOMAIN results) |->
        IF i = Cardinality(DOMAIN results) THEN optimization_result
        ELSE results[i]]

\* lines 24-37: the argument check, then optimizer.configure
SeqCheckConfig ==
    /\ mgr_pc = "start"
    /\ IF config.trials_per_optimizer = 0
       THEN mgr_pc' = "rejected" /\ UNCHANGED call_history
       ELSE /\ mgr_pc' = "seq_loop"
            /\ call_history' = Append(call_history, Call("configure", 0, 0))
    /\ UNCHANGED outside_manager
    /\ UNCHANGED <<config, seeds, optimization_results, spawned, wpc, trial,
                   end_trial, logger_mutex, log_index, log, flushes,
                   experiment_result, optimize_calls, writers>>

\* lines 42-47: one seed is drawn, optimize() is called with it and the
\* seed is stored in the result it returned
SeqOptimize(drawn, status, inner, sets_seed) ==
    /\ mgr_pc = "seq_loop"
    /\ trial[0] < config.trials_per_optimizer
    /\ seeds' = Append(seeds, drawn)
    /\ optimization_results' =
          (trial[0] :> StoreSeed(optimizer_optimize(drawn, status, inner,
                                                    sets_seed, trial[0],
                                                    config.optimizer_budget),
                                 drawn))
    /\ optimize_calls' = [i \in 0..trial[0] |->
                             IF i = trial[0] THEN <<drawn>> ELSE optimize_calls[i]]
    /\ call_history' = Append(call_history, Call("optimize", trial[0], 0))
    /\ log_index' = [log_index EXCEPT ![0] = 1]
    /\ mgr_pc' = "seq_logging"
    /\ UNCHANGED outside_manager
    /\ UNCHANGED <<config, spawned, wpc, trial, end_trial, logger_mutex, log,
                   flushes, experiment_result, writers>>

\* lines 49-65: one iteration of the logging loop
SeqLog ==
    /\ mgr_pc = "seq_logging"
    /\ log_index[0] <= Len(optimization_results[trial[0]].trials)
    /\ log' = Append(log,
                 RunRecord(optimization_results[trial[0]].trials[log_index[0]],
                           seeds[Len(seeds)], trial[0]))
    /\ call_history' = Append(call_history,
                              Call("log", trial[0], log_index[0]))
    /\ log_index' = [log_index EXCEPT ![0] = @ + 1]
    /\ UNCHANGED outside_manager
    /\ UNCHANGED <<config, mgr_pc, seeds, optimization_results, spawned, wpc,
                   trial, end_trial, logger_mutex, flushes, experiment_result,
                   optimize_calls, writers>>

\* line 67: the logging loop is over, the result is appended, ++trial
SeqPushBack ==
    /\ mgr_pc = "seq_logging"
    /\ log_index[0] > Len(optimization_results[trial[0]].trials)
    /\ experiment_result' =
          optimizer_results_push_back(experiment_result,
                                      optimization_results[trial[0]])
    /\ optimization_results' = <<>>
    /\ log_index' = [log_index EXCEPT ![0] = 0]
    /\ trial' = [trial EXCEPT ![0] = @ + 1]
    /\ mgr_pc' = "seq_loop"
    /\ UNCHANGED outside_manager
    /\ UNCHANGED <<config, seeds, spawned, wpc, end_trial, logger_mutex, log,
                   flushes, optimize_calls, writers, call_history>>

\* lines 70-72: the trial loop is over, the logger is flushed, the result
\* returned
SeqFlushReturn ==
    /\ mgr_pc = "seq_loop"
    /\ ~(trial[0] < config.trials_per_optimizer)
    /\ flushes' = flushes + 1
    /\ call_history' = Append(call_history, Call("flush", 0, 0))
    /\ mgr_pc' = "done"
    /\ UNCHANGED outside_manager
    /\ UNCHANGED <<config, seeds, optimization_results, spawned, wpc, trial,
                   end_trial, logger_mutex, log_index, log, experiment_result,
                   optimize_calls, writers>>

\* what optimize() may return to the sequential manager: a ledger of any
\* length up to MaxInnerTrials, or InternalError without ledger
SeqOptimizeOutcomes ==
    {[status |-> "Success", inner |-> n] : n \in 1..MaxInnerTrials}
      \cup {[status |-> "InternalError", inner |-> 0]}

SequentialNext ==
    \/ SeqCheckConfig
    \/ \E drawn \in NextDraws(seeds), outcome \in SeqOptimizeOutcomes,
          sets_seed \in BOOLEAN :
          SeqOptimize(drawn, outcome.status, outcome.inner, sets_seed)
    \/ SeqLog
    \/ SeqPushBack
    \/ SeqFlushReturn

\* ------------------------------------------------------------------------
\* Budget caps of the inner algorithms (src/wrappers/pagmo/de_algorithm.cpp,
\* sade_algorithm.cpp, budget_util.hpp) and of the hyperparameter optimizers
\* (cmaes_hyper.cpp, nm_hyper.cpp)
\* ------------------------------------------------------------------------
Max(a, b) == IF a > b THEN a ELSE b

\* determine_generations of de_algorithm.cpp (the same text in
\* de1220_algorithm.cpp, pso_algorithm.cpp, sga_algorithm.cpp and
\* cmaes_algorithm.cpp)
determine_generations(configured_parameters, budget, population) ==
    LET requested == configured_parameters.generations
        capped == IF budget.generations.has
                  THEN Min(requested, budget.generations.value)
                  ELSE requested
        max_generations == budget.function_evaluations.value \div Max(population, 1)
        generations == IF budget.function_evaluations.has /\ max_generations > 0
                       THEN Min(capped, max_generations)
                       ELSE capped
    IN Max(generations, 1)

\* compute_generations of budget_util.hpp
compute_generations(params, budget, population_size) ==
    IF population_size = 0 THEN Raise("population_size cannot be zero")
    ELSE IF params.generations = 0 THEN Raise("generations must be positive")
    ELSE LET capped == IF budget.generations.has
                       THEN Min(params.generations, budget.generations.value)
                       ELSE params.generations
             max_gens == budget.function_evaluations.value \div population_size
         IN Ok(IF budget.function_evaluations.has
               THEN Min(capped, Max(max_gens, 1))
               ELSE capped)

\* a budget_usage
Usage(function_evaluations, generations) ==
    [function_evaluations |-> function_evaluations, generations |-> generations]

\* the result of a call: status and budget_usage; a default-constructed
\* budget_usage is all zero
Returned(status, usage) == [status |-> status, budget_usage |-> usage]

\* PagmoDifferentialEvolution::run, lines 137-166 (evolve() returns)
de_run(configured_parameters, budget) ==
    LET population_size == configured_parameters.population_size
        generations == determine_generations(configured_parameters, budget,
                                             population_size)
    IN Returned("Success", Usage(population_size * generations, generations))

\* PagmoSelfAdaptiveDE::run, lines 110-149 (evolve() returns)
sade_run(configured_parameters, budget, over_wall_time) ==
    LET population_size == configured_parameters.population_size
        generations == compute_generations(configured_parameters, budget,
                                           population_size)
    IN IF ~generations.ok
       THEN Returned("InternalError", Usage(0, 0))
       ELSE Returned(IF over_wall_time THEN "BudgetExceeded" ELSE "Success",
                     Usage(population_size * (generations.val + 1),
                           generations.val))

\* the algorithm is run; an exception out of pagmo reaches the catch block
\* of run() (de_algorithm.cpp 169-172, sade_algorithm.cpp 146-149)
AlgorithmRun(over_wall_time, evolve_raises) ==
    /\ run_pc = "configured"
    /\ run_callee \in {"de", "sade"}
    /\ run_result' = IF evolve_raises
                     THEN Returned("InternalError", Usage(0, 0))
                     ELSE IF run_callee = "de"
                     THEN de_run(run_parameters, run_budget)
                     ELSE sade_run(run_parameters, run_budget, over_wall_time)
    /\ run_pc' = "returned"
    /\ UNCHANGED outside_run
    /\ UNCHANGED <<run_callee, run_parameters, run_budget, run_dimension>>

\* PagmoCmaesHyperOptimizer::optimize, lines 312-355: the generations cap,
\* the population of max(4 * dimension, dimension + 1) individuals, each
\* evaluated once when pagmo builds the population, then evolve() running
\* evolve_steps generations of population_size evaluations each
cmaes_hyper_optimize(configured_parameters, budget, problem_dimension, evolve_steps) ==
    LET generations == IF budget.generations.has
                       THEN Min(configured_parameters.generations,
                                budget.generations.value)
                       ELSE configured_parameters.generations
        population_size == Max(problem_dimension * 4, problem_dimension + 1)
        context_evaluations == population_size
                                 + Min(evolve_steps, generations) * population_size
    IN Returned("Success", Usage(context_evaluations, generations))

\* PagmoNelderMeadHyperOptimizer::optimize, lines 265-305: the max_fevals
\* cap handed to nlopt, the population of problem_dimension + 1 individuals, each
\* evaluated once when pagmo builds the population, then evolve() making
\* evolve_steps evaluations
nm_hyper_optimize(configured_parameters, budget, problem_dimension, evolve_steps) ==
    LET max_fevals == IF budget.function_evaluations.has
                      THEN Min(configured_parameters.max_fevals,
                               budget.function_evaluations.value)
                      ELSE configured_parameters.max_fevals
        population_size == problem_dimension + 1
        context_evaluations == population_size + Min(evolve_steps, max_fevals)
    IN Returned("Success", Usage(context_evaluations, 1))

\* optimize() is called; evolve() stops after evolve_steps steps (its
\* limit or a tolerance reached), or an exception reaches the catch block
HyperOptimize(evolve_steps, evolve_raises) ==
    /\ run_pc = "configured"
    /\ run_callee \in {"cmaes_hyper", "nm_hyper"}
    /\ run_result' =
          IF evolve_raises THEN Returned("InternalError", Usage(0, 0))
          ELSE IF run_callee = "cmaes_hyper"
          THEN cmaes_hyper_optimize(run_parameters, run_budget, run_dimension,
                                    evolve_steps)
          ELSE nm_hyper_optimize(run_parameters, run_budget, run_dimension,
                                 evolve_steps)
    /\ run_pc' = "returned"
    /\ UNCHANGED outside_run
    /\ UNCHANGED <<run_callee, run_parameters, run_budget, run_dimension>>

\* the budgets tried
Budgets ==
    [generations : {NoCap} \cup {Cap(n) : n \in 0..MaxGenerations},
     function_evaluations : {NoCap} \cup {Cap(n) : n \in {0, 3, 5, 10, 16, 35}}]

\* the hyperparameter optimizers, their configured parameters inside the
\* declared ranges (generations 1.., max_fevals 1..) and the dimensions of
\* the tuning problem
HyperInputs ==
    [callee : {"cmaes_hyper", "nm_hyper"},
     parameters : [generations : 1..MaxGenerations,
                   max_fevals : {1, MaxGenerations + 2}],
     budget : Budgets,
     dimension : {1, 2}]

RunNext ==
    \/ \E over_wall_time \in BOOLEAN, evolve_raises \in BOOLEAN :
          AlgorithmRun(over_wall_time, evolve_raises)
    \/ \E evolve_steps \in 0..MaxGenerations, evolve_raises \in BOOLEAN :
          HyperOptimize(evolve_steps, evolve_raises)

\* the inner algorithms, their configured parameters inside the declared
\* ranges (population_size 5.., generations 1..), and the budgets tried
AlgorithmInputs ==
    [callee : {"de", "sade"},
     parameters : [generations : 1..MaxGenerations, population_size : {5, 7}],
     budget : Budgets,
     dimension : {0}]

InitRun(inputs) ==
    /\ \E input \in inputs :
          /\ run_callee = input.callee
          /\ run_parameters = input.parameters
          /\ run_budget = input.budget
          /\ run_dimension = input.dimension
    /\ run_pc = "configured"
    /\ run_result = Returned("InternalError", Usage(0, 0))

\* ------------------------------------------------------------------------
\* One ParameterSpace: add_descriptor, apply_defaults and validate calls
\* ------------------------------------------------------------------------
\* no call made yet
NoCall == [op |-> "none", arg |-> <<>>, raised |-> FALSE, returned |-> <<>>,
           before |-> <<>>]
Called(op, arg, outcome, before) ==
    [op |-> op, arg |-> arg, raised |-> ~outcome.ok, returned |-> outcome.val,
     before |-> before]

\* the descriptors offered to add_descriptor: well-formed ones (with and
\* without default, required or not, a one-point range, a default outside
\* the range) and malformed ones
OfferedDescriptors ==
    {DescX, DescN, DescC, DescM,
     Descriptor("x", "Continuous", Range(Scale, Scale), NoRange, <<>>,
                NoValue, FALSE),
     Descriptor("n", "Integer", NoRange, Range(0, 3), <<>>, Some(IntV(1)), TRUE),
     Descriptor("m", "Integer", NoRange, NoRange, <<>>, NoValue, TRUE),
     Descriptor("c", "Categorical", NoRange, NoRange, <<"p">>,
                Some(StringV("z")), FALSE),
     Descriptor("", "Boolean", NoRange, NoRange, <<>>, NoValue, FALSE),
     Descriptor("x", "Continuous", Range(2 * Scale, Scale), NoRange, <<>>,
                NoValue, FALSE),
     Descriptor("n", "Integer", NoRange, Range(3, 0), <<>>, NoValue, FALSE),
     Descriptor("c", "Categorical", NoRange, NoRange, <<>>, NoValue, FALSE),
     Descriptor("x", "Continuous", NoRange, Range(3, 0), <<>>, NoValue, FALSE)}

\* the values offered for a name in a ParameterSet: accepted ones, ones
\* outside the range or the choices, ones of another type
OfferedValues(name) ==
    CASE name = "x" -> {DoubleV(Scale), DoubleV(5 * Scale), IntV(1)}
      [] name = "n" -> {IntV(3), IntV(4)}
      [] name = "c" -> {StringV("p"), StringV("z")}
      [] name = "m" -> {IntV(7)}
      [] name = "zz" -> {BoolV(TRUE)}

\* the ParameterSets offered: at most two entries
OfferedSets ==
    UNION {{values \in [names -> UNION {OfferedValues(name) : name \in names}] :
              \A name \in names : values[name] \in OfferedValues(name)} :
           names \in {chosen \in SUBSET {"x", "n", "c", "m", "zz"} :
                         Cardinality(chosen) <= 2}}

InitSpace ==
    /\ descriptors_ = <<>>
    /\ space_call = NoCall
    /\ inserted = <<>>

\* add_descriptor(descriptor) is called
AddDescriptor(descriptor) ==
    /\ Len(descriptors_) < MaxDescriptors
    /\ LET outcome == add_descriptor(descriptors_, descriptor)
       IN /\ descriptors_' = IF outcome.ok THEN outcome.val ELSE descriptors_
          /\ inserted' = IF outcome.ok THEN Append(inserted, descriptor)
                         ELSE inserted
          /\ space_call' = Called("add_descriptor", descriptor,
                                  [outcome EXCEPT !.val = <<>>], descriptors_)
    /\ UNCHANGED outside_space

\* apply_defaults(overrides) is called
ApplyDefaults(overrides) ==
    /\ space_call' = Called("apply_defaults", overrides,
                            apply_defaults(descriptors_, overrides),
                            descriptors_)
    /\ UNCHANGED <<descriptors_, inserted>>
    /\ UNCHANGED outside_space

\* validate(values) is called
Validate(values) ==
    /\ space_call' = Called("validate", values,
                            validate(descriptors_, values), descriptors_)
    /\ UNCHANGED <<descriptors_, inserted>>
    /\ UNCHANGED outside_space

\* apply_defaults is called on the set apply_defaults just returned
ApplyDefaultsAgain ==
    /\ space_call.op = "apply_defaults"
    /\ ~space_call.raised
    /\ space_call' = Called("apply_defaults_again", space_call.returned,
                            apply_defaults(descriptors_, space_call.returned),
                            descriptors_)
    /\ UNCHANGED <<descriptors_, inserted>>
    /\ UNCHANGED outside_space

\* validate is called on the set apply_defaults just returned
ValidateResult ==
    /\ space_call.op = "apply_defaults"
    /\ ~space_call.raised
    /\ space_call' = Called("validate_result", space_call.returned,
                            validate(descriptors_, space_call.returned),
                            descriptors_)
    /\ UNCHANGED <<descriptors_, inserted>>
    /\ UNCHANGED outside_space

SpaceNext ==
    \/ \E descriptor \in OfferedDescriptors : AddDescriptor(descriptor)
    \/ \E overrides \in OfferedSets : ApplyDefaults(overrides)
    \/ \E values \in OfferedSets : Validate(values)
    \/ ApplyDefaultsAgain
    \/ ValidateResult

\* ------------------------------------------------------------------------
\* One SearchSpace (src/core/search_space.cpp): set, fix, exclude, optimize,
\* optimize_choices, validate, validate_and_clamp; transform_bounds and
\* apply_transform
\* ------------------------------------------------------------------------
\* configs_[name] = entry
Assign(configs, name, entry) ==
    [nm \in (DOMAIN configs) \cup {name} |->
        IF nm = name THEN entry ELSE configs[nm]]

\* set without the check of the continuous bounds
SearchSpace_set_unchecked(configs, name, entry) ==
    Ok(Assign(configs, name, entry))

\* SearchSpace::set
SearchSpace_set(configs, name, entry) ==
    IF /\ entry.continuous_bounds.has
       /\ ~validate_transform_bounds(entry.continuous_bounds, entry.transform)
    THEN Raise("invalid bounds")
    ELSE Ok(Assign(configs, name, entry))

\* SearchSpace::fix
SearchSpace_fix(configs, name, value) == Ok(Assign(configs, name, fix(value)))

\* SearchSpace::exclude
SearchSpace_exclude(configs, name) == Ok(Assign(configs, name, exclude))

\* SearchSpace::optimize(name, ContinuousRange, Transform)
SearchSpace_optimize(configs, name, bounds, transform) ==
    IF ~validate_transform_bounds(bounds, transform)
    THEN Raise("invalid bounds")
    ELSE Ok(Assign(configs, name,
                   optimize(bounds.lower, bounds.upper, transform)))

\* SearchSpace::optimize(name, IntegerRange)
SearchSpace_optimize_int(configs, name, bounds) ==
    IF bounds.lower > bounds.upper
    THEN Raise("invalid integer bounds: lower > upper")
    ELSE Ok(Assign(configs, name, optimize_int(bounds.lower, bounds.upper)))

\* SearchSpace::optimize_choices
SearchSpace_optimize_choices(configs, name, choices) ==
    IF choices = <<>>
    THEN Raise("discrete choices cannot be empty")
    ELSE Ok(Assign(configs, name, optimize_choices(choices)))

\* the body of the loop of SearchSpace::validate for one entry: TRUE iff
\* no exception is thrown
validate_entry(space, name, entry) ==
    /\ name \in DescriptorNames(space)
    /\ LET described == descriptor_of(space, name)
       IN /\ (entry.mode = "fixed" /\ entry.fixed_value.has) =>
                LET value == entry.fixed_value.value
                IN CASE described.type = "Continuous" ->
                          /\ value.k = "double"
                          /\ described.continuous_range.has =>
                                ~(value.v < described.continuous_range.lower
                                  \/ value.v > described.continuous_range.upper)
                     [] described.type = "Integer" ->
                          /\ value.k = "int"
                          /\ described.integer_range.has =>
                                ~(value.v < described.integer_range.lower
                                  \/ value.v > described.integer_range.upper)
                     [] OTHER -> TRUE
          /\ ~(entry.continuous_bounds.has /\ described.type # "Continuous")
          /\ ~(entry.integer_bounds.has /\ described.type # "Integer")

\* SearchSpace::validate
SearchSpace_validate(configs, space) ==
    IF \A name \in DOMAIN configs : validate_entry(space, name, configs[name])
    THEN Ok(<<>>)
    ELSE Raise("search space does not fit the parameter space")

\* clamp_bounds (both overloads)
clamp_bounds(custom, constraint) ==
    Range(Max(custom.lower, constraint.lower),
          Min(custom.upper, constraint.upper))

\* the body of the loop of validate_and_clamp for one entry: the entry as
\* the loop leaves it and whether it threw
clamp_entry(space, name, entry) ==
    IF entry.mode # "optimize" THEN [entry |-> entry, raised |-> FALSE]
    ELSE LET described == descriptor_of(space, name)
             clamps_continuous == /\ entry.continuous_bounds.has
                                  /\ described.continuous_range.has
             first == IF clamps_continuous
                      THEN [entry EXCEPT !.continuous_bounds =
                               clamp_bounds(entry.continuous_bounds,
                                            described.continuous_range)]
                      ELSE entry
             clamps_integer == /\ entry.integer_bounds.has
                               /\ described.integer_range.has
             second == IF clamps_integer
                       THEN [first EXCEPT !.integer_bounds =
                                clamp_bounds(first.integer_bounds,
                                             described.integer_range)]
                       ELSE first
         IN IF /\ clamps_continuous
               /\ ~validate_transform_bounds(first.continuous_bounds,
                                             first.transform)
            THEN [entry |-> first, raised |-> TRUE]
            ELSE [entry |-> second,
                  raised |-> /\ clamps_integer
                             /\ second.integer_bounds.lower
                                   > second.integer_bounds.upper]

RECURSIVE ClampFrom(_, _, _, _)
\* the loop of validate_and_clamp from position i of the iteration order
ClampFrom(configs, space, order, i) ==
    IF i > Len(order) THEN Ok(configs)
    ELSE LET clamped == clamp_entry(space, order[i], configs[order[i]])
             assigned == Assign(configs, order[i], clamped.entry)
         IN IF clamped.raised
            THEN [ok |-> FALSE, val |-> assigned, what |-> "invalid bounds"]
            ELSE ClampFrom(assigned, space, order, i + 1)

\* SearchSpace::validate_and_clamp: the configs_ it leaves behind, and
\* whether it raised; order is the iteration order of the unordered_map
validate_and_clamp(configs, space, order) ==
    IF ~SearchSpace_validate(configs, space).ok
    THEN [ok |-> FALSE, val |-> configs, what |-> "validate"]
    ELSE ClampFrom(configs, space, order, 1)

\* SearchSpace::get
SearchSpace_get(configs, name) ==
    IF name \in DOMAIN configs THEN configs[name] ELSE NoConfig

\* SearchSpace::get_optimization_dimension
get_optimization_dimension(configs, space) ==
    Cardinality({i \in 1..Len(space) :
        LET entry == SearchSpace_get(configs, space[i].name)
        IN ~(entry.present /\ entry.mode \in {"fixed", "exclude"})})

\* SearchSpace::get_effective_bounds: one entry per descriptor, in
\* declaration order
get_effective_bounds(configs, space) ==
    [i \in 1..Len(space) |->
        LET described == space[i]
            entry == SearchSpace_get(configs, described.name)
            own == entry.present /\ entry.mode = "optimize"
            declared == ~entry.present
                        \/ (/\ own /\ entry.discrete_choices = <<>>
                            /\ ~entry.continuous_bounds.has
                            /\ ~entry.integer_bounds.has)
        IN [name |-> described.name,
            type |-> described.type,
            mode |-> IF entry.present THEN entry.mode ELSE "optimize",
            transform |-> IF entry.present THEN entry.transform ELSE "none",
            discrete_choice_count |->
                IF own THEN Len(entry.discrete_choices) ELSE 0,
            continuous_bounds |->
                IF declared THEN described.continuous_range
                ELSE IF own /\ entry.discrete_choices = <<>>
                THEN entry.continuous_bounds ELSE NoRange,
            integer_bounds |->
                IF declared THEN described.integer_range
                ELSE IF /\ own /\ entry.discrete_choices = <<>>
                        /\ ~entry.continuous_bounds.has
                THEN entry.integer_bounds ELSE NoRange]]

\* the configs_ of the search space of a scenario (none for a context
\* without search space)
ConfigsOf(sc) ==
    LET names == {DescriptorsOf(sc)[i].name : i \in 1..Len(DescriptorsOf(sc))}
    IN [name \in {nm \in names : ConfigFor(sc, DescriptorsOf(sc)[
                       CHOOSE i \in 1..Len(DescriptorsOf(sc)) :
                          DescriptorsOf(sc)[i].name = nm]).present} |->
           SearchSpaceGet(sc, name)]

\* the ParameterSpace the search space is validated against
TargetSpace == <<DescX, DescN, DescB, DescC, DescM>>

NoSearchCall ==
    [op |-> "none", name |-> "", arg |-> <<>>, raised |-> FALSE,
     returned |-> <<>>, before |-> <<>>]
SearchCalled(op, name, arg, raised, outcome, before) ==
    [op |-> op, name |-> name, arg |-> arg, raised |-> raised,
     returned |-> outcome, before |-> before]

InitSearch ==
    /\ configs_ = <<>>
    /\ search_call = NoSearchCall

\* room for an entry under this name
HasRoom(name) ==
    name \in DOMAIN configs_ \/ Cardinality(DOMAIN configs_) < MaxConfigs

\* a call that assigns configs_[name] unless it raises
Assigns(op, name, arg, outcome) ==
    /\ HasRoom(name)
    /\ configs_' = IF outcome.ok THEN outcome.val ELSE configs_
    /\ search_call' = SearchCalled(op, name, arg, ~outcome.ok, <<>>, configs_)
    /\ UNCHANGED outside_search

\* the values offered to fix(): of the declared type inside and outside
\* the declared range, of another type, and for a name the space lacks
OfferedFixes ==
    {<<"x", DoubleV(Scale)>>, <<"x", DoubleV(5 * Scale)>>, <<"x", IntV(1)>>,
     <<"n", IntV(2)>>, <<"n", IntV(9)>>, <<"n", DoubleV(Scale)>>,
     <<"b", IntV(1)>>, <<"c", BoolV(TRUE)>>, <<"zz", IntV(0)>>}

Transforms == {"none", "log", "log2", "sqrt"}

\* the calls optimize(name, ContinuousRange, transform) offered: bounds
\* inside, across and beside the declared range [0, 4] of x, with
\* lower = 0, lower < 0 and lower > upper
OfferedOptimize ==
    {<<"x", Range(2 * Scale, Scale), "none">>,
     <<"x", Range(0, Scale), "log">>,
     <<"x", Range(0, Scale), "log2">>,
     <<"x", Range(-Scale, Scale), "sqrt">>,
     <<"x", Range(0, Scale), "sqrt">>,
     <<"x", Range(-Scale, Scale), "none">>,
     <<"x", Range(Scale, 2 * Scale), "log">>,
     <<"x", Range(Scale, 6 * Scale), "log2">>,
     <<"x", Range(3 * Scale, 6 * Scale), "none">>,
     <<"x", Range(5 * Scale, 6 * Scale), "none">>}

\* the calls optimize(name, IntegerRange) offered: bounds inside, across
\* and beside the declared range [0, 3] of n, with lower > upper, and on
\* a Continuous descriptor
OfferedOptimizeInteger ==
    {<<"n", Range(2, 5)>>, <<"n", Range(5, 1)>>, <<"n", Range(7, 9)>>,
     <<"x", Range(2, 5)>>}

\* the configs offered to set(): integer bounds with lower > upper,
\* continuous bounds the transform rejects, continuous bounds on an
\* Integer descriptor, bounds on a fixed entry
OfferedConfigs ==
    {<<"m", Config("optimize", NoValue, NoRange, Range(5, 1), <<>>, "none")>>,
     <<"x", Config("optimize", NoValue, Range(0, Scale), NoRange, <<>>, "log")>>,
     <<"x", Config("optimize", NoValue, Range(2 * Scale, Scale), NoRange,
                   <<>>, "none")>>,
     <<"n", Config("optimize", NoValue, Range(Scale, 2 * Scale), NoRange,
                   <<>>, "none")>>,
     <<"x", Config("fixed", Some(DoubleV(Scale)), Range(5 * Scale, 6 * Scale),
                   NoRange, <<>>, "none")>>}

\* the ends of the bounds offered to transform_bounds
OfferedEnds == {-Scale, 0, 1, 2, 3, Scale, 5, 2 * Scale, 4 * Scale, 6 * Scale}

Set(name, entry) ==
    Assigns("set", name, entry, SearchSpace_set(configs_, name, entry))

Fix(name, value) ==
    Assigns("fix", name, value, SearchSpace_fix(configs_, name, value))

Exclude(name) ==
    Assigns("exclude", name, <<>>, SearchSpace_exclude(configs_, name))

Optimize(name, bounds, transform) ==
    Assigns("optimize", name, [bounds |-> bounds, transform |-> transform],
            SearchSpace_optimize(configs_, name, bounds, transform))

OptimizeInteger(name, bounds) ==
    Assigns("optimize_int", name, bounds,
            SearchSpace_optimize_int(configs_, name, bounds))

OptimizeChoices(name, choices) ==
    Assigns("optimize_choices", name, choices,
            SearchSpace_optimize_choices(configs_, name, choices))

\* validate(space) is called
SearchValidate ==
    /\ search_call' = SearchCalled("validate", "", <<>>,
                          ~SearchSpace_validate(configs_, TargetSpace).ok,
                          <<>>, configs_)
    /\ UNCHANGED configs_
    /\ UNCHANGED outside_search

\* the orders in which an unordered_map may be iterated
Orders(names) ==
    {order \in [1..Cardinality(names) -> names] :
        \A i, j \in 1..Cardinality(names) : order[i] = order[j] => i = j}

\* validate_and_clamp(space) is called
ValidateAndClamp(order) ==
    /\ LET outcome == validate_and_clamp(configs_, TargetSpace, order)
       IN /\ configs_' = outcome.val
          /\ search_call' = SearchCalled("validate_and_clamp", "", order,
                                         ~outcome.ok, <<>>, configs_)
    /\ UNCHANGED outside_search

\* transform_bounds(bounds, transform) is called: it validates, then maps
TransformBounds(bounds, transform) ==
    /\ search_call' =
          IF validate_transform_bounds(bounds, transform)
          THEN SearchCalled("transform_bounds", transform, bounds, FALSE,
                            transform_bounds(bounds, transform), configs_)
          ELSE SearchCalled("transform_bounds", transform, bounds, TRUE,
                            <<>>, configs_)
    /\ UNCHANGED configs_
    /\ UNCHANGED outside_search

\* apply_transform is called on both ends of the bounds transform_bounds
\* just returned; the call record keeps the original bounds as argument
ApplyTransformBack ==
    /\ search_call.op = "transform_bounds"
    /\ ~search_call.raised
    /\ search_call' =
          SearchCalled("apply_transform", search_call.name, search_call.arg,
                       FALSE,
                       Range(apply_transform(search_call.returned.lower,
                                             search_call.name),
                             apply_transform(search_call.returned.upper,
                                             search_call.name)),
                       search_call.returned)
    /\ UNCHANGED configs_
    /\ UNCHANGED outside_search

SearchNext ==
    \/ \E offered \in OfferedConfigs : Set(offered[1], offered[2])
    \/ \E offered \in OfferedFixes : Fix(offered[1], offered[2])
    \/ Exclude("c")
    \/ \E offered \in OfferedOptimize :
          Optimize(offered[1], offered[2], offered[3])
    \/ \E offered \in OfferedOptimizeInteger :
          OptimizeInteger(offered[1], offered[2])
    \/ \E choices \in {<<>>, <<IntV(0), IntV(2)>>} :
          OptimizeChoices("n", choices)
    \/ SearchValidate
    \/ \E order \in Orders(DOMAIN configs_) : ValidateAndClamp(order)
    \/ \E offered \in OfferedOptimize :
          TransformBounds(offered[2], offered[3])

\* transform_bounds over a grid of bounds, and apply_transform back
TransformNext ==
    \/ \E lo \in OfferedEnds, hi \in OfferedEnds, transform \in Transforms :
          TransformBounds(Range(lo, hi), transform)
    \/ ApplyTransformBack

\* ------------------------------------------------------------------------
\* The parallel manager with the optimize() call of one worker shown at
\* the grain of fitness(): worker 0 enters optimize(), the outer
\* optimizer's threads run the bridge on the context of that call, and the
\* worker goes on to its logging block once optimize() has returned.  The
\* optimize() calls of the other workers are on other contexts (other
\* mutexes) and stay one step each.
\* ------------------------------------------------------------------------
\* optimize() returns to its caller once its last statement has run, not
\* before
OptimizeHasReturned_Early == TRUE
OptimizeHasReturned == opt_pc = "returned"

\* line 132: the worker calls optimizer.optimize
WorkerOptimizeCall(w) ==
    /\ wpc[w] = "loop"
    /\ trial[w] < end_trial[w]
    /\ opt_pc = "start"
    /\ wpc' = [wpc EXCEPT ![w] = "optimizing"]
    /\ UNCHANGED outside_manager
    /\ UNCHANGED <<config, mgr_pc, seeds, optimization_results, spawned, trial,
                   end_trial, logger_mutex, log_index, log, flushes,
                   experiment_result, optimize_calls, writers, call_history>>

\* a step of optimize() or of one of its fitness() calls
WorkerOptimizeStep(w) ==
    /\ wpc[w] = "optimizing"
    /\ BridgeNext

\* lines 132-136: optimize() has returned, the result is stored at the
\* trial's index
WorkerOptimizeReturn(w) ==
    /\ wpc[w] = "optimizing"
    /\ OptimizeHasReturned
    /\ LET optimizer_seed == SeedOfTrial(seeds, w, trial[w])
           optimization_result ==
               StoreSeed(optimizer_optimize(optimizer_seed, result.status,
                                            Len(result.trials), TRUE, trial[w],
                                            config.optimizer_budget),
                         optimizer_seed)
       IN /\ optimization_results' =
                [optimization_results EXCEPT ![trial[w]] = optimization_result]
          /\ optimize_calls' =
                [optimize_calls EXCEPT ![trial[w]] = Append(@, optimizer_seed)]
          /\ writers' = [writers EXCEPT ![trial[w]] = Append(@, w)]
    /\ wpc' = [wpc EXCEPT ![w] = "stored"]
    /\ UNCHANGED outside_manager
    /\ UNCHANGED call_history
    /\ UNCHANGED <<config, mgr_pc, seeds, spawned, trial, end_trial,
                   logger_mutex, log_index, log, flushes, experiment_result>>

NestedNext ==
    \/ CheckConfig
    \/ \E drawn \in NextDraws(seeds) : DrawSeed(drawn)
    \/ PrepareWorkers
    \/ SpawnWorker
    \/ \E w \in Islands : WorkerEnter(w)
    \/ WorkerOptimizeCall(0)
    \/ WorkerOptimizeStep(0)
    \/ WorkerOptimizeReturn(0)
    \/ \E w \in Islands \ {0}, outcome \in OptimizeOutcomes :
          WorkerOptimize(w, outcome.status, outcome.inner, TRUE)
    \/ \E w \in Islands : WorkerLogLock(w)
    \/ \E w \in Islands : WorkerLog(w)
    \/ \E w \in Islands : WorkerLogUnlock(w)
    \/ \E w \in Islands : WorkerExit(w)
    \/ JoinAndReturn

\* ------------------------------------------------------------------------
\* Specifications
\* ------------------------------------------------------------------------
\* the experiment manager is not running
ManagerIdle == InitManager({0}, {0})
\* no optimize() call is running on the bridge
BridgeIdle == InitBridge({"plain"}, 1, 0, {}, {3})
\* no parameter space in use
SpaceIdle == InitSpace
\* no search space in use
SearchIdle == InitSearch
\* no budgeted call is made
RunIdle ==
    InitRun({[callee |-> "none", parameters |-> <<>>,
              budget |-> [generations |-> NoCap, function_evaluations |-> NoCap],
              dimension |-> 0]})

\* the bridge under concurrent fitness() calls
Init ==
    /\ InitBridge({"fixed", "wide"}, NumThreads, MaxEvals,
                  {Scale + 2, 5 * Scale}, {SeedMod - 1})
    /\ ManagerIdle /\ RunIdle /\ SpaceIdle /\ SearchIdle
Next == BridgeNext
Spec == Init /\ [][Next]_vars

\* the bridge with a single-threaded outer optimizer
InitSeq ==
    /\ InitBridge({"fixed", "custom", "wide", "allfixed", "allskipped",
                   "empty"}, 1, MaxEvals,
                  {Scale \div 2, 5 * Scale}, BaseSeeds)
    /\ ManagerIdle /\ RunIdle /\ SpaceIdle /\ SearchIdle
SpecSeq == InitSeq /\ [][Next]_vars

\* one fitness() call for every scenario and every candidate
InitDecode ==
    /\ InitBridge(ScenarioNames, 1, 1, SlotValues, BaseSeeds)
    /\ ManagerIdle /\ RunIdle /\ SpaceIdle /\ SearchIdle
SpecDecode == InitDecode /\ [][Next]_vars

\* the parallel experiment manager
InitPar ==
    /\ InitManager(0..MaxIslands, 0..MaxTrials)
    /\ BridgeIdle /\ RunIdle /\ SpaceIdle /\ SearchIdle
NextPar == ManagerNext
SpecPar == InitPar /\ [][NextPar]_vars

\* two workers with one trial each; the optimize() call of worker 0 is
\* made of two fitness() calls on two threads.  Every thread that can
\* take a step eventually takes one (inner runs terminate, the scheduler
\* runs every thread)
InitNested ==
    /\ InitManager({2}, {2})
    /\ InitBridge({"wide"}, 2, 2, {Scale + 2}, {3})
    /\ RunIdle /\ SpaceIdle /\ SearchIdle
SpecNested == InitNested /\ [][NestedNext]_vars /\ WF_vars(NestedNext)

\* the sequential experiment manager
InitSeqMgr ==
    /\ InitManager({1}, 0..MaxTrials)
    /\ BridgeIdle /\ RunIdle /\ SpaceIdle /\ SearchIdle
SpecSeqMgr == InitSeqMgr /\ [][SequentialNext]_vars

\* the budgeted calls: run() of the inner algorithms and optimize() of the
\* hyperparameter optimizers
InitBudget ==
    /\ InitRun(AlgorithmInputs \cup HyperInputs)
    /\ BridgeIdle /\ ManagerIdle /\ SpaceIdle /\ SearchIdle
SpecBudget == InitBudget /\ [][RunNext]_vars

\* a parameter space under construction and in use
InitParameterSpace ==
    /\ InitSpace
    /\ BridgeIdle /\ ManagerIdle /\ RunIdle /\ SearchIdle
SpecSpace == InitParameterSpace /\ [][SpaceNext]_vars

\* a search space under construction and in use
InitSearchSpace ==
    /\ InitSearch
    /\ BridgeIdle /\ ManagerIdle /\ RunIdle /\ SpaceIdle
SpecSearch == InitSearchSpace /\ [][SearchNext]_vars

\* transform_bounds and apply_transform as pure functions
SpecTransform == InitSearchSpace /\ [][TransformNext]_vars

\* ------------------------------------------------------------------------
\* Properties of the bridge
\* ------------------------------------------------------------------------
\* the ledger: *ctx.trials, and result.trials once optimize() moved it there
Ledger == IF opt_pc = "returned" /\ result.status = "Success"
          THEN result.trials ELSE trials

FitnessAt(i) == Ledger[i].optimization_result.best_fitness

RECURSIVE MinElementFrom(_, _, _)
\* std::min_element over the ledger with operator< on best_fitness, as the
\* fallback of fill_hyper_result computes it: the index of the result
MinElementFrom(ledger, i, smallest) ==
    IF i > Len(ledger) THEN smallest
    ELSE MinElementFrom(ledger, i + 1,
            IF Less(ledger[i].optimization_result.best_fitness,
                    ledger[smallest].optimization_result.best_fitness)
            THEN i ELSE smallest)
min_element(ledger) == MinElementFrom(ledger, 2, 1)

\* C1: at every point of every interleaving the tracked best trial is the
\* ledger record std::min_element selects (operator< on best_fitness, so a
\* NaN compares as neither smaller nor larger); when no ledger record is
\* NaN its best_fitness is <= every record's and strictly below every
\* earlier record's (the first record achieving the minimum); a Success
\* result of optimize() carries that record's best_fitness and parameters.
C1_BestIsFirstMinimum ==
    /\ best_trial.has <=> Len(Ledger) > 0
    /\ best_trial.has =>
         LET m == min_element(Ledger)
         IN /\ best_trial.record = Ledger[m]
            /\ (\A i \in 1..Len(Ledger) : FitnessAt(i).k # "nan") =>
                  /\ \A i \in 1..Len(Ledger) : ~Less(FitnessAt(i), FitnessAt(m))
                  /\ \A i \in 1..(m - 1) : Less(FitnessAt(m), FitnessAt(i))
            /\ (opt_pc = "returned" /\ result.status = "Success") =>
                  /\ result.best_objective = FitnessAt(m)
                  /\ result.best_parameters = Ledger[m].parameters

\* C1 witness: optimize() returned a ledger in which a later trial ties
\* with the earlier best one, and two trials were recorded out of seed order
C1_Witness ==
    /\ opt_pc = "returned" /\ result.status = "Success"
    /\ Len(Ledger) = 3
    /\ FitnessAt(1) = Num(2) /\ FitnessAt(2) = Num(1) /\ FitnessAt(3) = Num(1)
    /\ best_trial.record = Ledger[2]
    /\ Ledger[1].parameters # Ledger[2].parameters

\* C2: with a single-threaded outer optimizer the k-th recorded call
\* (k = 0, 1, ..) ran with seed base_seed + k (unsigned arithmetic) and the
\* parameters decoded from the k-th candidate, and the seeds were handed out
\* in that order: the ledger's seeds and parameters are a function of
\* base_seed and the candidate sequence.
C2_SequentialSeeds ==
    /\ Len(cand_log) = Len(Ledger)
    /\ \A k \in 1..Len(Ledger) :
          /\ Ledger[k].optimization_result.seed = (base_seed + (k - 1)) % SeedMod
          /\ Ledger[k].parameters = DecodeCandidate(scenario, cand_log[k]).val
    /\ \A k \in 1..Len(handed) : handed[k] = (base_seed + (k - 1)) % SeedMod

\* C2 witness: three calls recorded, the seeds wrapping around
C2_Witness ==
    /\ opt_pc = "returned" /\ result.status = "Success"
    /\ Len(Ledger) = 3
    /\ base_seed = SeedMod - 1
    /\ Ledger[3].optimization_result.seed = 1
    /\ cand_log[1] # cand_log[2]

\* C3: under every interleaving the n seeds handed out so far are pairwise
\* different and are exactly base_seed .. base_seed + n - 1, and the counter
\* was incremented once per seed.
C3_SeedsCollisionFree ==
    /\ \A i, j \in 1..Len(handed) : i # j => handed[i] # handed[j]
    /\ {handed[i] : i \in 1..Len(handed)} =
          {(base_seed + k) % SeedMod : k \in 0..(Len(handed) - 1)}
    /\ evaluations = Len(handed)

\* C3 witness: two calls hold their seeds at the same time
C3_Witness ==
    /\ Len(handed) = 2
    /\ Cardinality({t \in Threads : pc[t] = "seeded"}) = 2

\* C4: every step leaves the ledger unchanged or appends exactly one record
\* behind the unchanged old ones, and the number of fitness() calls that
\* returned equals the number of records.
C4_LedgerAppendOnly ==
    /\ [][\/ Ledger' = Ledger
          \/ /\ Len(Ledger') = Len(Ledger) + 1
             /\ \A i \in 1..Len(Ledger) : Ledger'[i] = Ledger[i]]_vars
    /\ [](Len(returned) = Len(Ledger))

\* C4 witness: three records, the first two appended against seed order
C4_Witness ==
    /\ Len(trials) = 3
    /\ trials[1].optimization_result.seed = (base_seed + 1) % SeedMod
    /\ trials[2].optimization_result.seed = base_seed

\* the descriptors of the scenario a search space entry fixes to a value
FixedDescriptors ==
    {i \in 1..Len(DescriptorsOf(scenario)) :
        LET entry == SearchSpaceGet(scenario, DescriptorsOf(scenario)[i].name)
        IN HasSearchSpace(scenario) /\ entry.present /\ entry.mode = "fixed"
           /\ entry.fixed_value.has}

ExcludedDescriptors ==
    {i \in 1..Len(DescriptorsOf(scenario)) :
        LET entry == SearchSpaceGet(scenario, DescriptorsOf(scenario)[i].name)
        IN HasSearchSpace(scenario) /\ entry.present /\ entry.mode = "exclude"}

\* C5: every recorded trial carries, for each parameter the search space
\* fixes to a value, exactly that value, whatever the candidate was; the
\* coded vector has one slot per descriptor that is neither fixed nor
\* excluded.
C5_FixedParameters ==
    /\ \A k \in 1..Len(Ledger) : \A i \in FixedDescriptors :
          LET name == DescriptorsOf(scenario)[i].name
          IN /\ name \in DOMAIN Ledger[k].parameters
             /\ Ledger[k].parameters[name] =
                   SearchSpaceGet(scenario, name).fixed_value.value
    /\ opt_pc = "evolving" =>
          dimension = Len(DescriptorsOf(scenario))
                        - Cardinality(FixedDescriptors)
                        - Cardinality(ExcludedDescriptors)
    /\ \A k \in 1..Len(cand_log) : Len(cand_log[k]) = dimension

\* C5 witness: a trial recorded with n fixed to 3 from a candidate whose
\* only slot went to x
C5_Witness ==
    /\ scenario = "fixed"
    /\ Len(Ledger) = 1
    /\ Ledger[1].parameters["n"] = IntV(3)
    /\ Ledger[1].parameters["x"] = DoubleV(4 * Scale)
    /\ cand_log[1] = <<5 * Scale>>

\* a value lies in the effective domain of an optimized descriptor
InEffectiveDomain(descriptor, entry, value) ==
    IF descriptor.type \in {"Integer", "Categorical"}
       /\ entry.present /\ entry.discrete_choices # <<>>
    THEN \E j \in 1..Len(entry.discrete_choices) :
            value = entry.discrete_choices[j]
    ELSE CASE descriptor.type = "Continuous" ->
                /\ value.k = "double"
                /\ IF entry.present /\ entry.continuous_bounds.has
                   THEN /\ entry.continuous_bounds.lower <= value.v
                        /\ value.v <= entry.continuous_bounds.upper
                   ELSE /\ descriptor.continuous_range.lower <= value.v
                        /\ value.v <= descriptor.continuous_range.upper
           [] descriptor.type = "Integer" ->
                /\ value.k = "int"
                /\ IF entry.present /\ entry.integer_bounds.has
                   THEN /\ entry.integer_bounds.lower <= value.v
                        /\ value.v <= entry.integer_bounds.upper
                   ELSE /\ descriptor.integer_range.lower <= value.v
                        /\ value.v <= descriptor.integer_range.upper
           [] descriptor.type = "Boolean" -> value.k = "bool"
           [] descriptor.type = "Categorical" ->
                /\ value.k = "string"
                /\ \E j \in 1..Len(descriptor.categorical_choices) :
                      value.v = descriptor.categorical_choices[j]

OptimizedDescriptors ==
    {i \in 1..Len(DescriptorsOf(scenario)) :
        LET entry == SearchSpaceGet(scenario, DescriptorsOf(scenario)[i].name)
        IN ~HasSearchSpace(scenario) \/ ~entry.present \/ entry.mode = "optimize"}

\* C6: in every recorded trial each optimized parameter lies in its
\* effective domain (custom bounds if configured, else the declared range;
\* a member of the configured or declared choice list), for every candidate,
\* and the rounded ordinal of every slot value is within 0 .. count-1.
C6_DecodedInDomain ==
    /\ \A k \in 1..Len(Ledger) : \A i \in OptimizedDescriptors :
          LET descriptor == DescriptorsOf(scenario)[i]
              entry == IF HasSearchSpace(scenario)
                        THEN SearchSpaceGet(scenario, descriptor.name)
                        ELSE NoConfig
          IN /\ descriptor.name \in DOMAIN Ledger[k].parameters
             /\ InEffectiveDomain(descriptor, entry,
                                  Ledger[k].parameters[descriptor.name])
    /\ \A value \in SlotValues : \A count \in 1..3 :
          ChoiceIndex(value, count) \in 0..(count - 1)

\* C6 witness: a candidate with both slots above the emitted bounds was
\* recorded with x and n at the upper custom bounds
C6_Witness ==
    /\ scenario = "custom"
    /\ Len(Ledger) = 1
    /\ cand_log[1] = <<5 * Scale, 5 * Scale>>
    /\ Ledger[1].parameters["x"] = DoubleV(2 * Scale)
    /\ Ledger[1].parameters["n"] = IntV(2)

\* number of entries of a history sequence that are in a set
CountIn(history, set) == Cardinality({i \in 1..Len(history) : history[i] \in set})

\* C7: a run that returns a non-Success status is recorded like any other:
\* every call that took a seed and whose run() returned is in the ledger or
\* still in flight, fitness() returned each record's best_fitness whatever
\* its status, no record of any status is strictly better than the tracked
\* best trial, and a returned status never raises an exception.
C7_FailedRunsRecorded ==
    /\ Len(handed) = Len(Ledger)
                       + Cardinality({t \in Threads : pc[t] = "seeded"})
                       + CountIn(threw, {"run"})
    /\ Len(returned) = Len(Ledger)
    /\ \A i \in 1..Len(Ledger) : returned[i] = FitnessAt(i)
    /\ \A i \in 1..Len(Ledger) :
          best_trial.has /\
          ~Less(FitnessAt(i), best_trial.record.optimization_result.best_fitness)
    /\ exc # "" => threw # <<>>

\* C7 witness: an InternalError run and a BudgetExceeded run were recorded,
\* the BudgetExceeded one is the best trial, a Success run followed, and
\* optimize() returned Success
C7_Witness ==
    /\ opt_pc = "returned" /\ result.status = "Success"
    /\ Len(Ledger) = 3
    /\ Ledger[1].optimization_result.status = "InternalError"
    /\ Ledger[2].optimization_result.status = "BudgetExceeded"
    /\ Ledger[3].optimization_result.status = "Success"
    /\ result.best_objective = Num(1)
    /\ best_trial.record = Ledger[2]
    /\ returned = <<Inf, Num(1), Num(2)>>

\* C8: once optimize() has returned after configure() or run() raised in
\* some evaluation, the result is a Success result that keeps every trial
\* recorded so far.
C8_ExceptionStaysLocal ==
    (opt_pc = "returned" /\ CountIn(threw, {"configure", "run"}) > 0) =>
        /\ result.status = "Success"
        /\ Len(result.trials) >= Len(returned)

\* ------------------------------------------------------------------------
\* Properties of the parallel experiment manager
\* ------------------------------------------------------------------------
TrialIndices == 0..(config.trials_per_optimizer - 1)

\* the trials a running worker still has to do
Remaining(w) == {i \in TrialIndices : trial[w] <= i /\ i < end_trial[w]}

InLoop(w) == wpc[w] \in {"loop", "stored", "logging"}

\* C9: min(I, N) workers are started; no trial is optimized or stored twice,
\* the workers' remaining slices are pairwise disjoint, the trials one
\* worker stored are contiguous; when run_experiment returns every trial
\* index was optimized exactly once, stored by exactly one worker, and
\* element i of the result is the result of the call made for trial i.
C9_SlicesPartitionTrials ==
    /\ spawned <= (IF config.islands < config.trials_per_optimizer
                   THEN config.islands ELSE config.trials_per_optimizer)
    /\ mgr_pc \in {"spawning", "done"} =>
          /\ \A i \in TrialIndices :
                Len(optimize_calls[i]) <= 1 /\ Len(writers[i]) <= 1
          /\ \A w, v \in Islands :
                (w # v /\ InLoop(w) /\ InLoop(v)) => Remaining(w) \cap Remaining(v) = {}
          /\ \A i, j, k \in TrialIndices :
                (i < k /\ k < j /\ writers[i] # <<>> /\ writers[j] # <<>>
                   /\ writers[i] = writers[j]) => writers[k] = writers[i]
    /\ mgr_pc = "done" =>
          /\ spawned = (IF config.islands < config.trials_per_optimizer
                        THEN config.islands ELSE config.trials_per_optimizer)
          /\ DOMAIN experiment_result = TrialIndices
          /\ \A i \in TrialIndices :
                /\ Len(optimize_calls[i]) = 1
                /\ Len(writers[i]) = 1
                /\ experiment_result[i].of_call = i

\* C9 witness: islands = 3, trials_per_optimizer = 4 returned, three workers
\* started, the first two with two trials each
C9_Witness ==
    /\ mgr_pc = "done"
    /\ config.islands = 3 /\ config.trials_per_optimizer = 4
    /\ spawned = 3
    /\ writers = (0 :> <<0>> @@ 1 :> <<0>> @@ 2 :> <<1>> @@ 3 :> <<1>>)

\* C10: a worker runs only after all N seeds are drawn; every optimize()
\* call for trial i got the i-th drawn seed, every stored and returned
\* result i carries it, and so does every RunRecord of trial i, whatever the
\* schedule.
C10_SeedsFollowTrialIndex ==
    /\ spawned > 0 => Len(seeds) = config.trials_per_optimizer
    /\ mgr_pc \in {"spawning", "done"} =>
          \A i \in TrialIndices :
             /\ \A k \in 1..Len(optimize_calls[i]) : optimize_calls[i][k] = seeds[i + 1]
             /\ (mgr_pc = "spawning" /\ writers[i] # <<>>) =>
                    optimization_results[i].seed = seeds[i + 1]
             /\ mgr_pc = "done" => experiment_result[i].seed = seeds[i + 1]
    /\ \A k \in 1..Len(log) : log[k].optimizer_seed = seeds[log[k].of_trial + 1]

\* C10 witness: three trials with three different seeds on two workers
\* returned, the second worker's records logged before the first worker's
C10_Witness ==
    /\ mgr_pc = "done"
    /\ config.islands = 2 /\ config.trials_per_optimizer = 3
    /\ seeds = <<5, 12, 15>>
    /\ Len(log) >= 2
    /\ log[1].of_trial = 2
    /\ experiment_result[1].seed = 12

\* ------------------------------------------------------------------------
\* Properties of the sequential experiment manager
\* ------------------------------------------------------------------------
\* the positions of the call history at which an operation was called
CallsOf(op) == {p \in 1..Len(call_history) : call_history[p].op = op}

\* the result of outer trial i: appended to the output list, or still the
\* local of the running iteration
ResultOf(i) == IF i \in DOMAIN experiment_result
               THEN experiment_result[i] ELSE optimization_results[i]

\* the position in the call history of the k-th log() call
LogCallAt(k) ==
    CHOOSE p \in CallsOf("log") :
       Cardinality({q \in CallsOf("log") : q <= p}) = k

\* C11: SequentialExperimentManager calls configure once, before anything
\* else; the k-th optimize() call is the one of trial k-1 and is made only
\* after every record of trial k-2's ledger was logged; log() receives the
\* records of a trial in ledger order and the trials in order; flush() is
\* called at most once and nothing is called after it; and when
\* run_experiment returns, flush() was called once, every record is logged
\* and element i of the N returned results is the result of the i-th
\* optimize() call.
C11_SequentialOrder ==
    /\ Cardinality(CallsOf("configure")) <= 1
    /\ call_history # <<>> => call_history[1].op = "configure"
    /\ flushes = Cardinality(CallsOf("flush"))
    /\ flushes <= 1
    /\ \A p \in CallsOf("flush") : p = Len(call_history)
    /\ \A p \in CallsOf("optimize") :
          LET i == call_history[p].of_trial
          IN /\ Cardinality({q \in CallsOf("optimize") : q < p}) = i
             /\ i > 0 =>
                  /\ (i - 1) \in DOMAIN experiment_result
                  /\ \A j \in 1..Len(experiment_result[i - 1].trials) :
                        \E q \in 1..(p - 1) : call_history[q] = Call("log", i - 1, j)
    /\ \A p, q \in CallsOf("log") :
          p < q =>
             \/ call_history[p].of_trial < call_history[q].of_trial
             \/ /\ call_history[p].of_trial = call_history[q].of_trial
                /\ call_history[p].index < call_history[q].index
    /\ Len(log) = Cardinality(CallsOf("log"))
    /\ \A k \in 1..Len(log) :
          LET c == call_history[LogCallAt(k)]
          IN /\ log[k].of_trial = c.of_trial
             /\ c.index \in 1..Len(ResultOf(c.of_trial).trials)
             /\ log[k].algorithm_seed =
                   ResultOf(c.of_trial).trials[c.index].algorithm_seed
    /\ mgr_pc # "done" => flushes = 0
    /\ mgr_pc = "done" =>
          /\ flushes = 1
          /\ DOMAIN experiment_result = 0..(config.trials_per_optimizer - 1)
          /\ \A i \in DOMAIN experiment_result :
                /\ experiment_result[i].of_call = i
                /\ \A j \in 1..Len(experiment_result[i].trials) :
                      \E q \in CallsOf("log") : call_history[q] = Call("log", i, j)

\* C11 witness: three trials returned, the second without ledger, the
\* others with two records and one record
C11_Witness ==
    /\ mgr_pc = "done"
    /\ config.trials_per_optimizer = 3
    /\ Len(call_history) = 8
    /\ call_history[3] = Call("log", 0, 1)
    /\ call_history[4] = Call("log", 0, 2)
    /\ call_history[5] = Call("optimize", 1, 0)
    /\ call_history[6] = Call("optimize", 2, 0)
    /\ call_history[7] = Call("log", 2, 1)
    /\ experiment_result[1].status = "InternalError"

\* the positions of the log stream that hold records of outer trial i
LogOf(i) == {a \in 1..Len(log) : log[a].of_trial = i}

\* C12: at most one worker is inside the logging block; the records of one
\* outer trial form one contiguous block of the log stream, in ledger order;
\* flush() is not called before run_experiment is done and then exactly
\* once, when every started worker has finished, nobody holds the logger
\* mutex and every record of every trial's ledger is in the log.
C12_LoggingSerialized ==
    /\ Cardinality(logger_mutex) <= 1
    /\ Cardinality({w \in Islands : wpc[w] = "logging"}) <= 1
    /\ \A a, b, c \in 1..Len(log) :
          (a < b /\ b < c /\ log[a].of_trial = log[c].of_trial)
             => log[b].of_trial = log[a].of_trial
    /\ \A a \in 1..Len(log) :
          LET i == log[a].of_trial
              k == Cardinality({b \in LogOf(i) : b <= a})
          IN /\ k <= Len(ResultOf(i).trials)
             /\ log[a].algorithm_seed = ResultOf(i).trials[k].algorithm_seed
             /\ log[a].status = ResultOf(i).trials[k].status
    /\ flushes = (IF mgr_pc = "done" THEN 1 ELSE 0)
    /\ flushes = 1 =>
          /\ \A w \in Islands : w < spawned => wpc[w] = "finished"
          /\ logger_mutex = {}
          /\ \A i \in TrialIndices :
                Cardinality(LogOf(i)) = Len(experiment_result[i].trials)

\* C12 witness: run_experiment returned three trials of two workers, the
\* second worker's block lying between the two blocks of the first
C12_Witness ==
    /\ mgr_pc = "done"
    /\ config.islands = 2 /\ config.trials_per_optimizer = 3
    /\ Len(log) = 3 * MaxInnerTrials
    /\ log[1].of_trial = 0
    /\ log[MaxInnerTrials + 1].of_trial = 2
    /\ log[2 * MaxInnerTrials + 1].of_trial = 1

\* ------------------------------------------------------------------------
\* Properties of the budget caps
\* ------------------------------------------------------------------------
\* a run() that completed
RunCompleted ==
    /\ run_pc = "returned"
    /\ run_callee \in {"de", "sade"}
    /\ run_result.status # "InternalError"

\* an optimize() that returned Success
OptimizeSucceeded ==
    /\ run_pc = "returned"
    /\ run_callee \in {"cmaes_hyper", "nm_hyper"}
    /\ run_result.status = "Success"

\* C13: a run() that completed under a budget with a generations cap
\* reports budget_usage.generations <= budget.generations.
C13_GenerationsWithinCap ==
    (RunCompleted /\ run_budget.generations.has) =>
        run_result.budget_usage.generations <= run_budget.generations.value

\* C14: a run() that completed under a budget with a function-evaluation
\* cap reports budget_usage.function_evaluations <=
\* budget.function_evaluations.
C14_EvaluationsWithinCap ==
    (RunCompleted /\ run_budget.function_evaluations.has) =>
        run_result.budget_usage.function_evaluations
           <= run_budget.function_evaluations.value

\* C15: an optimize() that returned Success reports budget_usage within
\* every cap of its budget that is set: generations and function
\* evaluations.
C15_OptimizeWithinCaps ==
    OptimizeSucceeded =>
        /\ run_budget.generations.has =>
              run_result.budget_usage.generations <= run_budget.generations.value
        /\ run_budget.function_evaluations.has =>
              run_result.budget_usage.function_evaluations
                 <= run_budget.function_evaluations.value

\* ------------------------------------------------------------------------
\* Properties of degenerate parameter and search spaces
\* ------------------------------------------------------------------------
\* the space has no descriptors, or every descriptor is fixed or excluded
DegenerateSpace ==
    \/ DescriptorsOf(scenario) = <<>>
    \/ \A i \in 1..Len(DescriptorsOf(scenario)) :
          i \in FixedDescriptors \cup ExcludedDescriptors

\* C16: get_bounds() raises a validation error when the parameter space has
\* no descriptors or every descriptor is fixed or excluded, and then no
\* inner run is started: no fitness() call begins, the evaluation counter
\* stays 0 and the ledger stays empty.
C16_DegenerateSpaceStartsNoRun ==
    (DegenerateSpace /\ opt_pc # "start") =>
        /\ opt_pc = "returned"
        /\ threw = <<"get_bounds">>
        /\ started = 0
        /\ evaluations = 0
        /\ trials = <<>>
        /\ result.trials = <<>>
        /\ handed = <<>>
        /\ \A t \in Threads : pc[t] = "idle"

\* get_bounds() has raised for a space whose descriptors are all fixed or
\* excluded
C16_Witness ==
    /\ scenario = "allskipped"
    /\ opt_pc = "returned"
    /\ threw = <<"get_bounds">>
    /\ evaluations = 0

\* C17: a degenerate or empty parameter/search space given to optimize()
\* reaches the caller as a raised validation error: optimize() never
\* returns a result for it, in particular none whose status field carries
\* the failure.
C17_DegenerateSpaceIsRaised ==
    ~(DegenerateSpace /\ opt_pc = "returned")

\* ------------------------------------------------------------------------
\* Properties of the ParameterSpace
\* ------------------------------------------------------------------------
\* the variant alternative a declared type expects
TypeMatches(descriptor, value) ==
    \/ descriptor.type = "Continuous" /\ value.k = "double"
    \/ descriptor.type = "Integer" /\ value.k = "int"
    \/ descriptor.type = "Boolean" /\ value.k = "bool"
    \/ descriptor.type = "Categorical" /\ value.k = "string"

\* a numeric value of the declared type outside the declared range
OutsideRange(descriptor, value) ==
    \/ /\ descriptor.type = "Continuous" /\ value.k = "double"
       /\ descriptor.continuous_range.has
       /\ \/ value.v < descriptor.continuous_range.lower
          \/ value.v > descriptor.continuous_range.upper
    \/ /\ descriptor.type = "Integer" /\ value.k = "int"
       /\ descriptor.integer_range.has
       /\ \/ value.v < descriptor.integer_range.lower
          \/ value.v > descriptor.integer_range.upper

\* a label that is not among the declared choices
NotAChoice(descriptor, value) ==
    /\ descriptor.type = "Categorical" /\ value.k = "string"
    /\ \A j \in 1..Len(descriptor.categorical_choices) :
          descriptor.categorical_choices[j] # value.v

\* some entry of the set names no descriptor of the space or fails the
\* type / range / choice check of its descriptor
SomeEntryRejected(space, values) ==
    \E name \in DOMAIN values :
       \/ \A i \in 1..Len(space) : space[i].name # name
       \/ \E i \in 1..Len(space) :
             /\ space[i].name = name
             /\ \/ ~TypeMatches(space[i], values[name])
                \/ OutsideRange(space[i], values[name])
                \/ NotAChoice(space[i], values[name])

\* C18: apply_defaults(overrides), when it succeeds, returns exactly the
\* overrides plus the default of every descriptor that is not overridden
\* and has one; a descriptor not overridden, without default and not
\* required is absent from the result; and the call raises if an override
\* names no descriptor or fails its check, or a required descriptor has
\* neither override nor default.
C18_ApplyDefaultsResult ==
    space_call.op = "apply_defaults" =>
        LET overrides == space_call.arg
            defaulted == {i \in 1..Len(descriptors_) :
                             /\ descriptors_[i].name \notin DOMAIN overrides
                             /\ descriptors_[i].default_value.has}
            absent == {i \in 1..Len(descriptors_) :
                          /\ descriptors_[i].name \notin DOMAIN overrides
                          /\ ~descriptors_[i].default_value.has}
        IN /\ ~space_call.raised =>
                /\ DOMAIN space_call.returned =
                      (DOMAIN overrides)
                         \cup {descriptors_[i].name : i \in defaulted}
                /\ \A name \in DOMAIN overrides :
                      space_call.returned[name] = overrides[name]
                /\ \A i \in defaulted :
                      space_call.returned[descriptors_[i].name]
                         = descriptors_[i].default_value.value
                /\ \A i \in absent :
                      /\ ~descriptors_[i].required
                      /\ descriptors_[i].name \notin DOMAIN space_call.returned
           /\ SomeEntryRejected(descriptors_, overrides) => space_call.raised
           /\ (\E i \in absent : descriptors_[i].required) => space_call.raised

\* apply_defaults returned a set holding one override and one default
C18_Witness ==
    /\ space_call.op = "apply_defaults"
    /\ ~space_call.raised
    /\ Len(descriptors_) = 2
    /\ descriptors_[2] = DescN
    /\ space_call.arg = ("x" :> DoubleV(Scale))
    /\ space_call.returned = ("x" :> DoubleV(Scale)) @@ ("n" :> IntV(1))

\* C19: validate(set) raises if and only if some name in the set is no
\* descriptor, some value has another type than its descriptor, some numeric
\* value lies outside a declared range, some categorical value is not among
\* the choices, or some required descriptor has no entry in the set, also
\* when that descriptor has a default; it modifies neither the set nor the
\* space.
C19_ValidateRaisesIff ==
    space_call.op = "validate" =>
        /\ space_call.raised <=>
              \/ SomeEntryRejected(descriptors_, space_call.arg)
              \/ \E i \in 1..Len(descriptors_) :
                    /\ descriptors_[i].required
                    /\ descriptors_[i].name \notin DOMAIN space_call.arg
        /\ descriptors_ = space_call.before
        /\ space_call.returned = <<>>

\* validate raised for a set that leaves out a required descriptor which
\* has a default, every entry of the set being acceptable
C19_Witness ==
    /\ space_call.op = "validate"
    /\ space_call.raised
    /\ ~SomeEntryRejected(descriptors_, space_call.arg)
    /\ \A i \in 1..Len(descriptors_) :
          (descriptors_[i].required
             /\ descriptors_[i].name \notin DOMAIN space_call.arg)
          => descriptors_[i].default_value.has

\* a descriptor add_descriptor has to reject
Malformed(space, descriptor) ==
    \/ descriptor.name = ""
    \/ \E i \in 1..Len(space) : space[i].name = descriptor.name
    \/ /\ descriptor.continuous_range.has
       /\ descriptor.continuous_range.lower > descriptor.continuous_range.upper
    \/ /\ descriptor.integer_range.has
       /\ descriptor.integer_range.lower > descriptor.integer_range.upper
    \/ descriptor.type = "Categorical" /\ descriptor.categorical_choices = <<>>

\* C20: add_descriptor raises for an empty name, a name already in the
\* space, a range with lower > upper, or a Categorical descriptor without
\* choices; a rejected call leaves the space unchanged; after any sequence
\* of calls the names are unique and the descriptors are in the order of
\* their successful insertion.
C20_AddDescriptor ==
    /\ space_call.op = "add_descriptor" =>
          /\ Malformed(space_call.before, space_call.arg) => space_call.raised
          /\ space_call.raised => descriptors_ = space_call.before
    /\ \A i, j \in 1..Len(descriptors_) :
          descriptors_[i].name = descriptors_[j].name => i = j
    /\ descriptors_ = inserted

\* ------------------------------------------------------------------------
\* Properties of the SearchSpace
\* ------------------------------------------------------------------------
\* a configured name absent from the space, a fixed value of another type
\* than the descriptor's, a fixed numeric value outside the declared range,
\* or bounds attached to a descriptor of another type
EntryInvalid(space, name, entry) ==
    \/ name \notin DescriptorNames(space)
    \/ /\ name \in DescriptorNames(space)
       /\ LET described == descriptor_of(space, name)
          IN \/ /\ entry.mode = "fixed" /\ entry.fixed_value.has
                /\ \/ ~TypeMatches(described, entry.fixed_value.value)
                   \/ OutsideRange(described, entry.fixed_value.value)
             \/ entry.continuous_bounds.has /\ described.type # "Continuous"
             \/ entry.integer_bounds.has /\ described.type # "Integer"

\* C21: validate(space) raises whenever a configured name is absent from
\* the space, a fixed value's type differs from its descriptor's type (any
\* of the four types), a fixed numeric value lies outside the declared
\* range, or continuous / integer bounds sit on a descriptor of another
\* type; fix() never raises.
C21_ValidateRaisesOnInvalidEntry ==
    /\ search_call.op = "validate" =>
          ((\E name \in DOMAIN configs_ :
               EntryInvalid(TargetSpace, name, configs_[name]))
             => search_call.raised)
    /\ search_call.op = "fix" => ~search_call.raised

\* now is the intersection of the range prior with the range declared:
\* its ends are ends of the two, and it is never wider than either
IsIntersection(now, prior, declared) ==
    /\ now.has
    /\ now.lower \in {prior.lower, declared.lower}
    /\ now.upper \in {prior.upper, declared.upper}
    /\ now.lower >= prior.lower /\ now.lower >= declared.lower
    /\ now.upper <= prior.upper /\ now.upper <= declared.upper

\* the two ranges share no point
NoOverlap(one, other) == one.upper < other.lower \/ other.upper < one.lower

\* the custom bound now of an optimize-mode entry after a successful
\* validate_and_clamp, against its value before the call and the range
\* the descriptor declares
ClampedBound(now, prior, declared) ==
    now.has =>
       /\ now.lower <= now.upper
       /\ IF declared.has THEN IsIntersection(now, prior, declared)
          ELSE now = prior

\* C22: after validate_and_clamp(space) succeeds, every custom continuous
\* or integer bound of an optimize-mode entry is the intersection of its
\* previous value with the declared range and has lower <= upper; a custom
\* bound that does not overlap the declared range makes the call raise.
C22_ValidateAndClamp ==
    search_call.op = "validate_and_clamp" =>
       /\ ~search_call.raised =>
             \A name \in DOMAIN configs_ :
                LET described == descriptor_of(TargetSpace, name)
                    prior == search_call.before[name]
                IN configs_[name].mode = "optimize" =>
                      /\ ClampedBound(configs_[name].continuous_bounds,
                                      prior.continuous_bounds,
                                      described.continuous_range)
                      /\ ClampedBound(configs_[name].integer_bounds,
                                      prior.integer_bounds,
                                      described.integer_range)
       /\ (\E name \in (DOMAIN search_call.before)
                            \cap DescriptorNames(TargetSpace) :
              LET described == descriptor_of(TargetSpace, name)
                  prior == search_call.before[name]
              IN /\ prior.mode = "optimize"
                 /\ \/ /\ prior.continuous_bounds.has
                       /\ described.continuous_range.has
                       /\ NoOverlap(prior.continuous_bounds,
                                    described.continuous_range)
                    \/ /\ prior.integer_bounds.has
                       /\ described.integer_range.has
                       /\ NoOverlap(prior.integer_bounds,
                                    described.integer_range))
             => search_call.raised

\* the bounds a transform rejects: lower > upper, log or log2 with
\* lower <= 0, sqrt with lower < 0
RejectedBounds(bounds, transform) ==
    \/ bounds.lower > bounds.upper
    \/ transform \in {"log", "log2"} /\ bounds.lower <= 0
    \/ transform = "sqrt" /\ bounds.lower < 0

\* the existing entry for the name of the last call is as it was
EntryUnchanged ==
    /\ DOMAIN configs_ = DOMAIN search_call.before
    /\ \A name \in DOMAIN configs_ : configs_[name] = search_call.before[name]

\* C23: optimize with continuous bounds, set with continuous bounds and
\* transform_bounds raise exactly when lower > upper, when the transform is
\* log or log2 and lower <= 0, or when it is sqrt and lower < 0; optimize
\* with integer bounds raises when lower > upper, optimize_choices on an
\* empty list; a rejected call leaves the existing entries unchanged.
C23_RejectedCalls ==
    /\ search_call.op = "optimize" =>
          (search_call.raised <=>
             RejectedBounds(search_call.arg.bounds, search_call.arg.transform))
    /\ (search_call.op = "set" /\ search_call.arg.continuous_bounds.has) =>
          (search_call.raised <=>
             RejectedBounds(search_call.arg.continuous_bounds,
                            search_call.arg.transform))
    /\ search_call.op = "transform_bounds" =>
          (search_call.raised <=>
             RejectedBounds(search_call.arg, search_call.name))
    /\ search_call.op = "optimize_int" =>
          (search_call.raised <=> search_call.arg.lower > search_call.arg.upper)
    /\ search_call.op = "optimize_choices" =>
          (search_call.raised <=> search_call.arg = <<>>)
    /\ (/\ search_call.op \in {"optimize", "set", "optimize_int",
                               "optimize_choices", "transform_bounds"}
        /\ search_call.raised) => EntryUnchanged

\* a call of optimize with log bounds whose lower end is 0 has raised over
\* an existing entry for the same name
C23_Witness ==
    /\ search_call.op = "optimize" /\ search_call.raised
    /\ search_call.arg.transform = "log" /\ search_call.arg.bounds.lower = 0
    /\ search_call.name \in DOMAIN search_call.before
    /\ EntryUnchanged

\* ------------------------------------------------------------------------
\* Properties of the transforms
\* ------------------------------------------------------------------------
\* apply_transform has been applied to both ends of what transform_bounds
\* returned for the bounds search_call.arg
RoundTripDone == search_call.op = "apply_transform"

\* the end back of the round trip is the end it started from up to the
\* resolution of the grid: applying the transform to the transformed end
\* and to its successor on the grid encloses the original end
WithinTolerance(original, transformed, back, transform) ==
    /\ back <= original
    /\ original <= apply_transform(transformed + 1, transform)

C25_DimensionAgrees ==
    opt_pc = "evolving" =>
       LET descriptors == DescriptorsOf(scenario)
           effective == get_effective_bounds(ConfigsOf(scenario), descriptors)
           owners == SlotOwnersFrom(scenario, descriptors, 1)
       IN /\ dimension = get_optimization_dimension(ConfigsOf(scenario),
                                                    descriptors)
          /\ dimension = Cardinality({i \in 1..Len(effective) :
                                         effective[i].mode = "optimize"})
          /\ dimension = Len(owners)
          /\ BoundOwnersFrom(scenario, descriptors, 1) = owners
          /\ \A j, k \in 1..Len(owners) :
                j < k => \E a, b \in 1..Len(descriptors) :
                            /\ a < b
                            /\ descriptors[a].name = owners[j]
                            /\ descriptors[b].name = owners[k]
          /\ \A j \in 1..Len(owners) :
                ~Skipped(SearchSpace_get(ConfigsOf(scenario), owners[j]))
          /\ \A k \in 1..Len(Ledger) : \A j \in 1..Len(owners) :
                LET described == descriptor_of(descriptors, owners[j])
                IN Ledger[k].parameters[owners[j]] =
                      DecodeSlot(described, ConfigFor(scenario, described),
                                 cand_log[k][j]).val

\* a trial recorded in the scenario that fixes n and excludes c: the one
\* slot of the candidate went to x, the second descriptor
C25_Witness ==
    /\ scenario = "fixed"
    /\ opt_pc = "evolving"
    /\ dimension = 1
    /\ Len(Ledger) = 1
    /\ SlotOwnersFrom(scenario, DescriptorsOf(scenario), 1) = <<"x">>

\* ------------------------------------------------------------------------
\* Properties of the budgets of an experiment
\* ------------------------------------------------------------------------
\* C26: in run_experiment every inner-algorithm run() receives
\* ExperimentConfig.algorithm_budget as its budget; optimizer_budget bounds
\* only the outer optimizer.
C26_InnerRunsGetAlgorithmBudget ==
    \A i \in DOMAIN optimization_results :
       \A j \in 1..Len(optimization_results[i].trials) :
          optimization_results[i].trials[j].run_budget = config.algorithm_budget

\* ------------------------------------------------------------------------
\* Properties of the two locks
\* ------------------------------------------------------------------------
\* the thread is inside algorithm->run()
InRun(t) == pc[t] = "seeded"

\* no thread holds the context lock while it executes an inner run, and
\* the worker that holds the logger mutex is not inside optimize(), where
\* the context lock of its call is taken
LocksDoNotNest ==
    /\ \A t \in Workers : InRun(t) => t \notin mutex
    /\ \A w \in logger_mutex : wpc[w] # "optimizing"
    /\ 0 \in logger_mutex => mutex = {}

\* every fitness() call has returned, every worker has finished and
\* run_experiment has returned
AllReturned ==
    /\ mgr_pc = "done"
    /\ \A w \in Islands : w < spawned => wpc[w] = "finished"
    /\ opt_pc = "returned"
    /\ \A t \in Workers : pc[t] = "idle"
    /\ mutex = {} /\ logger_mutex = {}

\* C27: no thread holds the Bridge context lock while it executes an inner
\* run(), and no thread holds the logger mutex and a Bridge context lock
\* at the same time; so, every inner run terminating, every fitness() call
\* returns, every worker finishes and run_experiment returns.
C27_LocksDoNotNestAndAllReturn == []LocksDoNotNest /\ <>[]AllReturned

\* worker 1 holds the logger mutex while a thread of worker 0's optimize()
\* is inside the context lock
C27_Witness ==
    /\ 1 \in logger_mutex
    /\ mutex # {}
    /\ wpc[0] = "optimizing"

\* ------------------------------------------------------------------------
\* Properties of the slices
\* ------------------------------------------------------------------------
\* the workers that have computed their slice
SliceComputed == {w \in Islands : wpc[w] \notin {"unstarted", "entry"}}

\* number of trial indices in the slice of worker w
SliceSize(w) == end_trial[w] - start_trial(config, w)

\* C28: the trial slices are near-equal for every islands >= 1 and
\* trials_per_optimizer >= 1: the slice sizes of any two started workers
\* differ by at most one and no started worker has an empty slice.
C28_SlicesNearEqual ==
    /\ \A w \in SliceComputed : SliceSize(w) >= 1
    /\ \A w, v \in SliceComputed : SliceSize(w) - SliceSize(v) <= 1

\* ------------------------------------------------------------------------
\* Properties of the evaluation counter
\* ------------------------------------------------------------------------
\* the fitness() evaluations that have taken a seed and not appended their
\* record: those inside run() and those whose run() raised
TakenNotAppended ==
    Cardinality({t \in Workers : pc[t] = "seeded"})
      + Cardinality({k \in 1..Len(threw) : threw[k] = "run"})

\* C29: at every point of an optimize() call the evaluation counter is >=
\* the ledger length, their difference being the number of fitness()
\* evaluations that have taken a seed but not yet appended their record;
\* when optimize() returns Success, budget_usage.function_evaluations
\* equals the number of trials in the result.
C29_CounterAndLedger ==
    /\ ~(opt_pc = "returned" /\ result.status = "Success") =>
          /\ evaluations >= Len(trials)
          /\ evaluations - Len(trials) = TakenNotAppended
    /\ (opt_pc = "returned" /\ result.status = "Success") =>
          result.function_evaluations = Len(result.trials)

\* two evaluations have taken their seeds and neither has appended its
\* record; another one has
C29_Witness ==
    /\ opt_pc = "evolving"
    /\ Len(trials) = 1
    /\ evaluations = 3
    /\ \A t \in Workers : pc[t] = "seeded"

\* ------------------------------------------------------------------------
\* Properties of apply_defaults applied twice
\* ------------------------------------------------------------------------
\* C30: for every overrides set on which apply_defaults succeeds, the
\* returned set passes validate and is a fixed point of apply_defaults:
\* apply_defaults(apply_defaults(o)) = apply_defaults(o).
C30_ApplyDefaultsFixedPoint ==
    /\ space_call.op = "validate_result" => ~space_call.raised
    /\ space_call.op = "apply_defaults_again" =>
          /\ ~space_call.raised
          /\ space_call.returned = space_call.arg

\* apply_defaults was applied again to a set in which it had filled in the
\* default of n beside the override of x
C30_Witness ==
    /\ space_call.op = "apply_defaults_again"
    /\ Len(descriptors_) = 2
    /\ descriptors_[2] = DescN
    /\ space_call.arg = ("x" :> DoubleV(Scale)) @@ ("n" :> IntV(1))
    /\ space_call.returned = space_call.arg
====
